---- MODULE Spec2Model ----
(***************************************************************************)
(* Session / identity bridging layer of the worklenz backend:              *)
(*   - DiscordBotService   (Guild Membership Gateway)                       *)
(*   - handleSignUp        (Signup Orchestrator, passport local-signup)     *)
(*   - session middleware  (Session Bridge)                                 *)
(* Strings are sequences of one-character strings, so that regex tests,    *)
(* split/join, prefix tests and URL encoding are computed character by     *)
(* character as the code computes them.                                    *)
(***************************************************************************)
EXTENDS Integers, Sequences, FiniteSets, TLC

VARIABLES
  \* ---- DiscordBotService (passport/index.ts 67-222) ----
  client,             \* this.client: 0 = null, k = the k-th Client object created
  conns,              \* every Client object ever created, in creation order
  initialized,        \* this.initialized
  reconnectAttempts,  \* this.reconnectAttempts
  timers,             \* number of pending setTimeout callbacks of handleReconnect
  backoff,            \* delays scheduled by handleReconnect since the last ready acknowledgment
  dropped,            \* transport errors since the last ready acknowledgment that scheduled nothing
  botToken,           \* process.env.DISCORD_BOT_TOKEN is set
  ret,                \* observable outcome of the most recent gateway call / handler
  query,              \* the isUserInGuild call in flight: its position and what it saw
  \* ---- the Node process the backend runs in ----
  process,            \* "running", or "exited" once a promise rejection went unhandled
  \* ---- handleSignUp (passport-local-signup.ts) and its collaborators ----
  users,              \* rows of the users table
  guildIdCfg,         \* process.env.DISCORD_GUILD_ID is set
  slots,              \* signup requests the server handles in this run
  req,                \* per request: position in handleSignUp, inputs, calls made, done calls
  \* ---- isValidDiscordIdFormat applied to one input ----
  fmt,                \* [arg, result]: the string tested, and the test's result once made
  \* ---- Session Bridge (session-middleware.ts 78-131) ----
  http,               \* the in-flight request: headers, stage, calls of the engine and of next
  \* ---- Identity Provider Registry (passport/index.ts 13-54) ----
  registry,           \* the environment at startup and the strategies passport.use was given
  \* ---- sendEmail (passport/index.ts 275-340) ----
  mailer,             \* one sendEmail call: its input, position, recipients, transport call, result
  \* ---- database functions and triggers (migration 20251108000000) ----
  db,                 \* the tables the functions read and write, and the calls made
  \* ---- OAuth endpoints (routes/auth/index.ts 33-165) ----
  route               \* one request to an OAuth endpoint: environment, response, passport calls

gwVars == <<client, conns, initialized, reconnectAttempts, timers, backoff, dropped, botToken, ret, query>>
suVars == <<users, guildIdCfg, slots, req>>

vars == <<gwVars, suVars, process, fmt, http, registry, mailer, db, route>>

\* what an action of one component leaves alone (the gateway and the
\* orchestrator may end the process: notGwSu is what they never touch)
notGwSu == <<fmt, http, registry, mailer, db, route>>
notGw == <<suVars, process, fmt, http, registry, mailer, db, route>>
notSu == <<gwVars, process, fmt, http, registry, mailer, db, route>>
notFmt == <<process, gwVars, suVars, http, registry, mailer, db, route>>
notHttp == <<gwVars, suVars, process, fmt, registry, mailer, db, route>>
notRegistry == <<gwVars, suVars, process, fmt, http, mailer, db, route>>
notMailer == <<gwVars, suVars, process, fmt, http, registry, db, route>>
notDb == <<gwVars, suVars, process, fmt, http, registry, mailer, route>>
notRoute == <<gwVars, suVars, process, fmt, http, registry, mailer, db>>

(***************************************************************************)
(* Bounds of the model                                                     *)
(***************************************************************************)
MaxClients == 2      \* Client objects created in one run
MaxDropped == 1      \* transport errors counted after the reconnect ceiling
MaxTimers == 5       \* reconnect callbacks pending at the same time
MaxIdLen == 21       \* length of the strings given to isValidDiscordIdFormat
MaxSidLen == 2       \* length of an x-session-id header value
MaxUsers == 4        \* rows of the users table
MaxRecipients == 3   \* length of the recipient list given to sendEmail
MaxDbCalls == 3      \* statements and function calls run against the database
MaxRegistrations == 2 \* register_discord_user calls in a run

(***************************************************************************)
(* Generic helpers                                                         *)
(***************************************************************************)
Min(a, b) == IF a <= b THEN a ELSE b

RECURSIVE Pow2(_)
Pow2(n) == IF n = 0 THEN 1 ELSE 2 * Pow2(n - 1)

(***************************************************************************)
(* DiscordBotService                                                       *)
(***************************************************************************)
MAX_RECONNECT_ATTEMPTS == 5

NoRet == [op |-> "none"]

\* A freshly constructed Client on which login() has been called, with its
\* once('ready') handler and the 30 s timeout of Promise.race both pending.
\* caller: who holds the promise of the initialize() call that made it, the
\* "application", or nobody when the reconnect callback made the call with
\* `void this.initialize()` ("timer").
NewConn(caller) == [login |-> "pending", ready |-> FALSE, race |-> "pending", destroyed |-> FALSE,
                    caller |-> caller]

\* Math.min(1000 * Math.pow(2, this.reconnectAttempts), 30000)
reconnectDelay(attempt) == Min(1000 * Pow2(attempt), 30000)

\* a variant of reconnectAllowed: `>` for `>=`
reconnectAllowed_offByOne(attempts) == ~(attempts > MAX_RECONNECT_ATTEMPTS)

\* if (this.reconnectAttempts >= this.MAX_RECONNECT_ATTEMPTS) return;
reconnectAllowed(attempts) == ~(attempts >= MAX_RECONNECT_ATTEMPTS)

isInitialized == initialized

\* Outcome of the initialize() call that created connection k, once settled.
\* a variant of callOutcome: the rejection of the 30000 ms timer is not awaited
callOutcome_timeoutIgnored(c) ==
  IF c.login = "rejected" THEN "throw_init_failed"
  ELSE IF c.login = "ok" /\ c.race # "pending" THEN "returned"
  ELSE "pending"

callOutcome(c) ==
  IF c.login = "rejected" THEN "throw_init_failed"
  ELSE IF c.login = "ok" /\ c.race = "ready" THEN "returned"
  ELSE IF c.login = "ok" /\ c.race = "timeout" THEN "throw_timeout"
  ELSE "pending"

\* A rejection no handler is attached to, which ends the Node process:
\*  - readyPromise (lines 107-119) is awaited only at line 122, after login has
\*    resolved: when the 30000 ms timer rejects it while login is pending, or
\*    after login rejected, nothing handles the rejection;
\*  - the promise of `void this.initialize()` (line 196) is held by nobody, so
\*    the Error thrown at line 125 is not handled either.
unhandledRejection(c) ==
  \/ c.race = "timeout" /\ c.login # "ok"
  \/ c.caller = "timer" /\ callOutcome(c) \in {"throw_init_failed", "throw_timeout"}

\* the process after a step that left connection c as given
processAfter(c) == IF unhandledRejection(c) THEN "exited" ELSE process

\* a variant of initializeBody: without the `if (this.initialized) return;` guard
initializeBody_noGuard(flag, caller) ==
  IF ~botToken
    THEN /\ UNCHANGED <<client, conns>>
         /\ ret' = [op |-> "initialize", outcome |-> "throw_token"]
    ELSE /\ Len(conns) < MaxClients
         /\ conns' = Append(conns, NewConn(caller))
         /\ client' = Len(conns) + 1
         /\ ret' = [op |-> "initialize", outcome |-> "connecting"]

\* Body of initialize() up to its first await, run with this.initialized = flag.
initializeBody(flag, caller) ==
  IF flag
    THEN /\ UNCHANGED <<client, conns>>
         /\ ret' = [op |-> "initialize", outcome |-> "skipped"]
    ELSE IF ~botToken
      THEN /\ UNCHANGED <<client, conns>>
           /\ ret' = [op |-> "initialize", outcome |-> "throw_token"]
      ELSE /\ Len(conns) < MaxClients
           /\ conns' = Append(conns, NewConn(caller))
           /\ client' = Len(conns) + 1
           /\ ret' = [op |-> "initialize", outcome |-> "connecting"]

\* public async initialize(), called by the application
initialize ==
  /\ process = "running"
  /\ initializeBody(initialized, "application")
  /\ UNCHANGED <<initialized, reconnectAttempts, timers, backoff, dropped, botToken, query>>
  /\ UNCHANGED notGw

\* await this.client.login(botToken) resolves
loginResolved(k) ==
  /\ process = "running"
  /\ conns[k].login = "pending"
  /\ conns' = [conns EXCEPT ![k].login = "ok"]
  /\ ret' = [op |-> "login", outcome |-> callOutcome(conns'[k])]
  /\ UNCHANGED <<client, initialized, reconnectAttempts, timers, backoff, dropped, botToken, query>>
  /\ UNCHANGED notGw

\* await this.client.login(botToken) rejects (credentials refused)
loginRejected(k) ==
  /\ process = "running"
  /\ conns[k].login = "pending"
  /\ ~conns[k].ready
  /\ conns' = [conns EXCEPT ![k].login = "rejected"]
  /\ ret' = [op |-> "login", outcome |-> callOutcome(conns'[k])]
  /\ process' = processAfter(conns'[k])
  /\ UNCHANGED <<client, initialized, reconnectAttempts, timers, backoff, dropped, botToken, query>>
  /\ UNCHANGED <<suVars, notGwSu>>

\* a variant of onReady: the handler does not reset reconnectAttempts
onReady_keepsAttempts(k) ==
  /\ process = "running"
  /\ ~conns[k].destroyed
  /\ ~conns[k].ready
  /\ conns[k].login # "rejected"
  /\ initialized' = TRUE
  /\ backoff' = <<>>
  /\ dropped' = 0
  /\ conns' = [conns EXCEPT ![k].ready = TRUE,
                            ![k].race = IF @ = "pending" THEN "ready" ELSE @]
  /\ ret' = [op |-> "ready", outcome |-> callOutcome(conns'[k])]
  /\ UNCHANGED <<client, reconnectAttempts, timers, botToken, query>>
  /\ UNCHANGED notGw

\* the once('ready') handler of connection k runs
onReady(k) ==
  /\ process = "running"
  /\ ~conns[k].destroyed
  /\ ~conns[k].ready
  /\ conns[k].login # "rejected"
  /\ initialized' = TRUE
  /\ reconnectAttempts' = 0
  /\ backoff' = <<>>
  /\ dropped' = 0
  /\ conns' = [conns EXCEPT ![k].ready = TRUE,
                            ![k].race = IF @ = "pending" THEN "ready" ELSE @]
  /\ ret' = [op |-> "ready", outcome |-> callOutcome(conns'[k])]
  /\ UNCHANGED <<client, timers, botToken, query>>
  /\ UNCHANGED notGw

\* the 30000 ms timer of Promise.race fires before 'ready'
readyTimeout(k) ==
  /\ process = "running"
  /\ conns[k].race = "pending"
  /\ conns' = [conns EXCEPT ![k].race = "timeout"]
  /\ ret' = [op |-> "timeout", outcome |-> callOutcome(conns'[k])]
  /\ process' = processAfter(conns'[k])
  /\ UNCHANGED <<client, initialized, reconnectAttempts, timers, backoff, dropped, botToken, query>>
  /\ UNCHANGED <<suVars, notGwSu>>

\* client.on('error') of connection k: log_error(error); this.handleReconnect()
handleReconnect(k) ==
  /\ process = "running"
  /\ ~conns[k].destroyed
  /\ conns[k].login # "rejected"
  /\ IF reconnectAllowed(reconnectAttempts)
       THEN /\ timers < MaxTimers
            /\ reconnectAttempts' = reconnectAttempts + 1
            /\ timers' = timers + 1
            /\ backoff' = Append(backoff, reconnectDelay(reconnectAttempts'))
            /\ ret' = [op |-> "handleReconnect", attempt |-> reconnectAttempts',
                       delay |-> reconnectDelay(reconnectAttempts')]
            /\ UNCHANGED dropped
       ELSE /\ dropped < MaxDropped
            /\ dropped' = dropped + 1
            /\ ret' = [op |-> "handleReconnect", attempt |-> reconnectAttempts, delay |-> 0]
            /\ UNCHANGED <<reconnectAttempts, timers, backoff>>
  /\ UNCHANGED <<client, conns, initialized, botToken, query>>
  /\ UNCHANGED notGw

\* the setTimeout callback of handleReconnect:
\*   this.initialized = false; void this.initialize();
\* The promise is dropped: an initialize() that throws at once (no token), or
\* later (unhandledRejection), is a rejection nobody handles.
reconnectTimer ==
  /\ process = "running"
  /\ timers > 0
  /\ timers' = timers - 1
  /\ initialized' = FALSE
  /\ initializeBody(FALSE, "timer")
  /\ process' = IF ret'.outcome = "throw_token" THEN "exited" ELSE process
  /\ UNCHANGED <<reconnectAttempts, backoff, dropped, botToken, query>>
  /\ UNCHANGED <<suVars, notGwSu>>

\* a variant of shutdownEffect: the client is destroyed, the flag is kept
shutdownEffect_keepsFlag(cl, cs, init) ==
  IF cl # 0
    THEN [conns |-> [cs EXCEPT ![cl].destroyed = TRUE], initialized |-> init]
    ELSE [conns |-> cs, initialized |-> init]

\* if (this.client) { this.client.destroy(); this.initialized = false; }
shutdownEffect(cl, cs, init) ==
  IF cl # 0
    THEN [conns |-> [cs EXCEPT ![cl].destroyed = TRUE], initialized |-> FALSE]
    ELSE [conns |-> cs, initialized |-> init]

\* public async shutdown()
shutdown ==
  /\ process = "running"
  /\ conns' = shutdownEffect(client, conns, initialized).conns
  /\ initialized' = shutdownEffect(client, conns, initialized).initialized
  /\ ret' = [op |-> "shutdown"]
  /\ UNCHANGED <<client, reconnectAttempts, timers, backoff, dropped, botToken, query>>
  /\ UNCHANGED notGw

\* a variant of isUserInGuild: a gateway that is not ready lets the user through
isUserInGuild_failOpen(cl, init, guildFetched, memberFetched) ==
  IF cl = 0 \/ ~init THEN "true"
  ELSE IF ~guildFetched THEN "false"
  ELSE IF ~memberFetched THEN "false"
  ELSE "true"

\* a variant of isUserInGuild: guilds.fetch outside the try block
isUserInGuild_uncaught(cl, init, guildFetched, memberFetched) ==
  IF cl = 0 \/ ~init THEN "false"
  ELSE IF ~guildFetched THEN "throw"
  ELSE IF ~memberFetched THEN "false"
  ELSE "true"

\* public async isUserInGuild(userId, guildId), with the outcome of the two
\* fetches on the connection given: the result is "true", "false" or "throw".
isUserInGuild(cl, init, guildFetched, memberFetched) ==
  IF cl = 0 \/ ~init THEN "false"
  ELSE IF ~guildFetched THEN "false"      \* guilds.fetch rejects: caught
  ELSE IF ~memberFetched THEN "false"     \* members.fetch rejects: caught
  ELSE "true"                             \* !!member

\* whether isUserInGuild gets as far as this.client.guilds.fetch
isUserInGuildFetches(cl, init) == ~(cl = 0 \/ ~init)

\* no isUserInGuild call is in flight
IdleQuery == [pc |-> "idle", hadClient |-> FALSE, wasReady |-> FALSE, guildFetched |-> FALSE]

\* what a settled isUserInGuild call reports
queryResult(q, guildFetched, memberFetched) ==
  [op |-> "isUserInGuild", hadClient |-> q.hadClient, wasReady |-> q.wasReady,
   guildFetched |-> guildFetched, memberFetched |-> memberFetched,
   fetched |-> q.hadClient /\ q.wasReady,
   result |-> isUserInGuild(IF q.hadClient THEN 1 ELSE 0, q.wasReady, guildFetched, memberFetched)]

\* a caller calls isUserInGuild: lines 160-166 run up to the first await.
\* Not ready: the call returns false. Ready: this.client.guilds.fetch is
\* called and the function waits for it.
queryGuild ==
  /\ process = "running"
  /\ query.pc = "idle"
  /\ LET q == [IdleQuery EXCEPT !.hadClient = client # 0, !.wasReady = initialized] IN
       IF isUserInGuildFetches(client, initialized)
         THEN /\ query' = [q EXCEPT !.pc = "await_guilds.fetch"]
              /\ ret' = [op |-> "isUserInGuild:called"]
         ELSE /\ query' = IdleQuery
              /\ ret' = queryResult(q, FALSE, FALSE)
  /\ UNCHANGED <<client, conns, initialized, reconnectAttempts, timers, backoff, dropped, botToken>>
  /\ UNCHANGED notGw

\* line 166: guilds.fetch settles. Rejected: the catch of lines 169-172 returns
\* false. Resolved: guild.members.fetch is called (line 167).
guildsFetchSettled ==
  /\ process = "running"
  /\ query.pc = "await_guilds.fetch"
  /\ \E g \in BOOLEAN :
       IF g THEN /\ query' = [query EXCEPT !.pc = "await_members.fetch", !.guildFetched = TRUE]
                 /\ ret' = [op |-> "isUserInGuild:guild"]
            ELSE /\ query' = IdleQuery
                 /\ ret' = queryResult(query, FALSE, FALSE)
  /\ UNCHANGED <<client, conns, initialized, reconnectAttempts, timers, backoff, dropped, botToken>>
  /\ UNCHANGED notGw

\* line 167: members.fetch settles; return !!member, or false from the catch
membersFetchSettled ==
  /\ process = "running"
  /\ query.pc = "await_members.fetch"
  /\ \E m \in BOOLEAN : ret' = queryResult(query, TRUE, m)
  /\ query' = IdleQuery
  /\ UNCHANGED <<client, conns, initialized, reconnectAttempts, timers, backoff, dropped, botToken>>
  /\ UNCHANGED notGw


(***************************************************************************)
(* Strings                                                                 *)
(***************************************************************************)
\* A JavaScript value is a string (a sequence of one-character strings) or
\* undefined, written as a sequence no string equals.
Undefined == <<"undefined">>

\* !v for a string or undefined
Falsy(v) == v = Undefined \/ v = <<>>

Digits == {"0", "1", "2", "3", "4", "5", "6", "7", "8", "9"}

ToLowerChar(c) == IF c = "A" THEN "a" ELSE IF c = "B" THEN "b" ELSE c
toLowerCase(s) == [i \in 1..Len(s) |-> ToLowerChar(s[i])]

RECURSIVE trimStart(_)
trimStart(s) == IF s # <<>> /\ Head(s) = " " THEN trimStart(Tail(s)) ELSE s
RECURSIVE trimEnd(_)
trimEnd(s) == IF s # <<>> /\ s[Len(s)] = " " THEN trimEnd(SubSeq(s, 1, Len(s) - 1)) ELSE s
trim(s) == trimEnd(trimStart(s))

(***************************************************************************)
(* Signup Orchestrator: passport-local-signup.ts                           *)
(***************************************************************************)
\* the longest run of \d the regex can consume from position i, at most `most`
RECURSIVE digitRun(_, _, _)
digitRun(s, i, most) ==
  IF most = 0 \/ i > Len(s) \/ s[i] \notin Digits THEN 0
  ELSE 1 + digitRun(s, i + 1, most - 1)

\* a variant of isValidDiscordIdFormat: the regex without its `$`
isValidDiscordIdFormat_unanchored(discordId) ==
  \E m \in 17..19 : m <= digitRun(discordId, 1, 19)

\* /^\d{17,19}$/.test(discordId): some count m of digits, 17 <= m <= 19,
\* consumed from the start, ends exactly at the end of the input.
isValidDiscordIdFormat(discordId) ==
  \E m \in 17..19 : m <= digitRun(discordId, 1, 19) /\ m = Len(discordId)

\* SELECT 1 FROM users WHERE discord_id = $1
isDiscordIdTaken(rows, discordId) ==
  \E u \in rows : u.discord_id # Undefined /\ discordId # Undefined /\ u.discord_id = discordId

\* SELECT 1 FROM users WHERE LOWER(email) = $1 AND google_id IS NOT NULL
isGoogleAccountFound(rows, email) ==
  \E u \in rows : toLowerCase(u.email) = trim(toLowerCase(email)) /\ u.google_id

\* SELECT 1 FROM users WHERE LOWER(email) = $1 AND is_deleted = TRUE
isAccountDeactivated(rows, email) ==
  \E u \in rows : toLowerCase(u.email) = trim(toLowerCase(email)) /\ u.is_deleted

\* isDiscordUserInGuild: discordBot.isUserInGuild inside try/catch
isDiscordUserInGuild(cl, init, guildFetched, memberFetched) ==
  isUserInGuild(cl, init, guildFetched, memberFetched) = "true"

Reason(text, arg) == [text |-> text, arg |-> arg]
NoReason == Reason("", <<>>)

TeamNameRequired == Reason("Team name is required", <<>>)
InviteOnly == Reason("Registration is invite-only. Please request an invite from your team.", <<>>)
DiscordIdRequired == Reason("Discord ID is required. Please provide your Discord User ID.", <<>>)
DiscordIdInvalid == Reason("Invalid Discord ID format. Discord IDs must be 17-19 digits.", <<>>)
DiscordIdRegistered == Reason("This Discord ID is already registered. Please use your own Discord ID.", <<>>)
DefaultError == Reason("DEFAULT_ERROR_MESSAGE", <<>>)
NotInGuild == Reason("You must be a member of the ESX Discord server to register. Please join the server and try again.", <<>>)
GoogleLinked(email) == Reason("{} is already linked with a Google account.", email)
Deactivated(email) == Reason("Account for email {} has been deactivated. Please contact support to reactivate your account.", email)
RegistrationSuccessful == Reason("Registration successful. Please check your email for verification.", <<>>)
NoInvitations(email) == Reason("No invitations found for email {}.", email)
AccountExists(value) == Reason("Worklenz account already exists for email {}.", value)
TeamNameExists(value) == Reason("Team name \"{}\" already exists. Please choose a different team name.", value)
TeamNameTaken(name) == Reason("Team name \"{}\" is already taken. Please choose a different team name.", name)

\* a variant of syncGates: the invite-only gate left out
syncGates_noInvite(body) ==
  IF Falsy(body.team_name) THEN TeamNameRequired
  ELSE IF Falsy(body.discord_id) THEN DiscordIdRequired
  ELSE IF ~isValidDiscordIdFormat(body.discord_id) THEN DiscordIdInvalid
  ELSE NoReason

\* a variant of syncGates: the Discord-required gate ahead of the invite-only gate
syncGates_discordFirst(body) ==
  IF Falsy(body.team_name) THEN TeamNameRequired
  ELSE IF Falsy(body.discord_id) THEN DiscordIdRequired
  ELSE IF Falsy(body.team_member_id) THEN InviteOnly
  ELSE IF ~isValidDiscordIdFormat(body.discord_id) THEN DiscordIdInvalid
  ELSE NoReason

\* lines 102-117: the gates decided from the request body alone
syncGates(body) ==
  IF Falsy(body.team_name) THEN TeamNameRequired
  ELSE IF Falsy(body.team_member_id) THEN InviteOnly
  ELSE IF Falsy(body.discord_id) THEN DiscordIdRequired
  ELSE IF ~isValidDiscordIdFormat(body.discord_id) THEN DiscordIdInvalid
  ELSE NoReason

\* An error thrown inside the try block: message is error.message cut at
\* each ":", constraint is error.constraint.
CommitError(message, constraint) == [message |-> message, constraint |-> constraint]

\* const [, value] = error.message.split(":")
splitValue(message) == IF Len(message) >= 2 THEN message[2] ELSE Undefined

\* message.includes(code), for a code that holds no ":"
includes(message, code) == \E i \in 1..Len(message) : message[i] = code

\* a variant of catchReason: error.constraint is not looked at
catchReason_noConstraint(error, body) ==
  IF error.message = <<"ERROR_INVALID_JOINING_EMAIL">> THEN NoInvitations(body.email)
  ELSE IF includes(error.message, "EMAIL_EXISTS_ERROR")
    THEN AccountExists(splitValue(error.message))
  ELSE IF includes(error.message, "TEAM_NAME_EXISTS_ERROR")
    THEN TeamNameExists(splitValue(error.message))
  ELSE DefaultError

\* lines 149-174: the reason the catch block reports
catchReason(error, body) ==
  IF error.message = <<"ERROR_INVALID_JOINING_EMAIL">> THEN NoInvitations(body.email)
  ELSE IF includes(error.message, "EMAIL_EXISTS_ERROR") \/ error.constraint = "users_google_id_uindex"
    THEN AccountExists(splitValue(error.message))
  ELSE IF includes(error.message, "TEAM_NAME_EXISTS_ERROR")
    THEN TeamNameExists(splitValue(error.message))
  ELSE IF error.constraint = "teams_url_uindex" \/ error.constraint = "teams_name_uindex"
    THEN TeamNameTaken(body.team_name)
  ELSE DefaultError

\* no error was caught
NoCommitError == CommitError(<<>>, "")

\* done(null, user, req.flash(key, reason))
DoneCall(user, key, reason) == [user |-> user, key |-> key, reason |-> reason]
NoUser == [email |-> Undefined, discord_id |-> Undefined]

IdleReq == [pc |-> "idle", body |-> [team_name |-> Undefined, team_member_id |-> Undefined,
                                     discord_id |-> Undefined, email |-> <<>>],
            gw |-> [cl |-> 0, init |-> FALSE], gate6 |-> "unreached",
            row |-> 0, mail |-> "none", error |-> NoCommitError, trace |-> <<>>, done |-> <<>>]

\* return done(null, user, req.flash(key, reason)) after the calls `calls`
finish(r, user, key, reason, calls) ==
  req' = [req EXCEPT ![r].pc = "returned",
                     ![r].trace = @ \o calls \o <<"done">>,
                     ![r].done = Append(@, DoneCall(user, key, reason))]

\* return done(null, null, req.flash(ERROR_KEY, reason))
reject(r, reason) == finish(r, NoUser, "error", reason, <<>>)

\* the function makes the calls `calls` and waits at its next await
proceed(r, nextPc, calls) ==
  req' = [req EXCEPT ![r].pc = nextPc, ![r].trace = @ \o calls]

\* a database query rejects outside any try block: handleSignUp's promise
\* rejects; line 182 dropped it (void handleSignUp(...)), so the rejection is
\* unhandled and ends the process
crash(r) == req' = [req EXCEPT ![r].pc = "rejected"]

\* ---- inputs ----
digitChar(i) == IF i % 10 = 0 THEN "0" ELSE IF i % 10 = 1 THEN "1" ELSE IF i % 10 = 2 THEN "2"
  ELSE IF i % 10 = 3 THEN "3" ELSE IF i % 10 = 4 THEN "4" ELSE IF i % 10 = 5 THEN "5"
  ELSE IF i % 10 = 6 THEN "6" ELSE IF i % 10 = 7 THEN "7" ELSE IF i % 10 = 8 THEN "8" ELSE "9"

\* "1234567890123..." of length n
DigitString(n) == [i \in 1..n |-> digitChar(i)]

TeamNames == {Undefined, <<>>, <<"A", "c", "m", "e">>}
TeamMemberIds == {Undefined, <<>>, <<"t", "m", "1">>}
DiscordIds == {Undefined, <<>>, DigitString(5), DigitString(17), DigitString(18),
               DigitString(20), Append(DigitString(17), "x")}
Emails == {<<"a">>, <<"A", " ">>, <<"b">>}

Bodies == [team_name : TeamNames, team_member_id : TeamMemberIds,
           discord_id : DiscordIds, email : Emails]

SeedUsers ==
  { [id |-> 101, email |-> <<"a">>, discord_id |-> Undefined, google_id |-> TRUE, is_deleted |-> FALSE],
    [id |-> 102, email |-> <<"b">>, discord_id |-> DigitString(18), google_id |-> FALSE, is_deleted |-> TRUE],
    [id |-> 103, email |-> <<"a">>, discord_id |-> Undefined, google_id |-> FALSE, is_deleted |-> TRUE] }

\* what register_user can signal to its caller
CommitErrors ==
  { CommitError(<<"ERROR_INVALID_JOINING_EMAIL">>, ""),
    CommitError(<<"EMAIL_EXISTS_ERROR", <<"a">>>>, ""),
    CommitError(<<"duplicate key value">>, "users_google_id_uindex"),
    CommitError(<<"TEAM_NAME_EXISTS_ERROR", <<"A", "c", "m", "e">>>>, ""),
    CommitError(<<"duplicate key value">>, "teams_url_uindex"),
    CommitError(<<"duplicate key value">>, "teams_name_uindex"),
    CommitError(<<"connection terminated">>, "") }

\* ---- handleSignUp, one action per stretch between two awaits ----

\* a variant of handleSignUp: done(...) without `return` at a failing gate
handleSignUp_noReturn(r) ==
  /\ process = "running"
  /\ r \in slots
  /\ req[r].pc = "idle"
  /\ \E b \in Bodies :
       LET fresh == [IdleReq EXCEPT !.body = b] IN
       IF syncGates(b) # NoReason
         THEN req' = [req EXCEPT ![r] = [fresh EXCEPT !.pc = "await_isDiscordIdTaken",
                                                      !.trace = <<"done", "isDiscordIdTaken">>,
                                                      !.done = <<DoneCall(NoUser, "error", syncGates(b))>>]]
         ELSE req' = [req EXCEPT ![r] = [fresh EXCEPT !.pc = "await_isDiscordIdTaken",
                                                      !.trace = <<"isDiscordIdTaken">>]]
  /\ UNCHANGED <<notSu, users, guildIdCfg, slots>>

\* lines 97-120: entry, the gates on the body, the isDiscordIdTaken query is sent
handleSignUp(r) ==
  /\ process = "running"
  /\ r \in slots
  /\ req[r].pc = "idle"
  /\ \E b \in Bodies :
       LET fresh == [IdleReq EXCEPT !.body = b] IN
       IF syncGates(b) # NoReason
         THEN req' = [req EXCEPT ![r] = [fresh EXCEPT !.pc = "returned",
                                                      !.trace = <<"done">>,
                                                      !.done = <<DoneCall(NoUser, "error", syncGates(b))>>]]
         ELSE req' = [req EXCEPT ![r] = [fresh EXCEPT !.pc = "await_isDiscordIdTaken",
                                                      !.trace = <<"isDiscordIdTaken">>]]
  /\ UNCHANGED <<notSu, users, guildIdCfg, slots>>

\* lines 120-132: isDiscordIdTaken settles; DISCORD_GUILD_ID; the gateway is asked
resumeDiscordIdTaken(r) ==
  /\ process = "running"
  /\ req[r].pc = "await_isDiscordIdTaken"
  /\ \E queryOk \in BOOLEAN :
       IF ~queryOk THEN crash(r)
       ELSE IF isDiscordIdTaken(users, req[r].body.discord_id) THEN reject(r, DiscordIdRegistered)
       ELSE IF ~guildIdCfg
         THEN req' = [req EXCEPT ![r].pc = "returned",
                                 ![r].gate6 = "noconfig",
                                 ![r].trace = Append(@, "done"),
                                 ![r].done = Append(@, DoneCall(NoUser, "error", DefaultError))]
       ELSE req' = [req EXCEPT ![r].pc = "await_isUserInGuild",
                               ![r].gw = [cl |-> client, init |-> initialized],
                               ![r].trace = @ \o <<"isUserInGuild">> \o
                                  (IF isUserInGuildFetches(client, initialized)
                                     THEN <<"guilds.fetch">> ELSE <<>>)]
  /\ process' = IF req'[r].pc = "rejected" THEN "exited" ELSE process
  /\ UNCHANGED <<gwVars, notGwSu, users, guildIdCfg, slots>>

\* lines 132-137: isDiscordUserInGuild settles; the isGoogleAccountFound query is sent
resumeUserInGuild(r) ==
  /\ process = "running"
  /\ req[r].pc = "await_isUserInGuild"
  /\ \E guildFetched \in BOOLEAN, memberFetched \in BOOLEAN :
       LET seen == IF req[r].gw.cl = 0 \/ ~req[r].gw.init THEN "notready"
                   ELSE IF ~guildFetched THEN "guildfail"
                   ELSE IF ~memberFetched THEN "notmember" ELSE "member" IN
       IF ~isDiscordUserInGuild(req[r].gw.cl, req[r].gw.init, guildFetched, memberFetched)
         THEN req' = [req EXCEPT ![r].pc = "returned",
                                 ![r].gate6 = seen,
                                 ![r].trace = Append(@, "done"),
                                 ![r].done = Append(@, DoneCall(NoUser, "error", NotInGuild))]
         ELSE req' = [req EXCEPT ![r].pc = "await_isGoogleAccountFound",
                                 ![r].gate6 = seen,
                                 ![r].trace = Append(@, "isGoogleAccountFound")]
  /\ UNCHANGED <<notSu, users, guildIdCfg, slots>>

\* lines 137-141: isGoogleAccountFound settles; the isAccountDeactivated query is sent
resumeGoogleAccountFound(r) ==
  /\ process = "running"
  /\ req[r].pc = "await_isGoogleAccountFound"
  /\ \E queryOk \in BOOLEAN :
       IF ~queryOk THEN crash(r)
       ELSE IF isGoogleAccountFound(users, req[r].body.email)
         THEN reject(r, GoogleLinked(req[r].body.email))
       ELSE proceed(r, "await_isAccountDeactivated", <<"isAccountDeactivated">>)
  /\ process' = IF req'[r].pc = "rejected" THEN "exited" ELSE process
  /\ UNCHANGED <<gwVars, notGwSu, users, guildIdCfg, slots>>

\* lines 141-146: isAccountDeactivated settles; registerUser is called
resumeAccountDeactivated(r) ==
  /\ process = "running"
  /\ req[r].pc = "await_isAccountDeactivated"
  /\ \E queryOk \in BOOLEAN :
       IF ~queryOk THEN crash(r)
       ELSE IF isAccountDeactivated(users, req[r].body.email)
         THEN reject(r, Deactivated(req[r].body.email))
       ELSE proceed(r, "await_registerUser", <<"registerUser">>)
  /\ process' = IF req'[r].pc = "rejected" THEN "exited" ELSE process
  /\ UNCHANGED <<gwVars, notGwSu, users, guildIdCfg, slots>>

\* the row register_user inserts
newUser(rows, body) ==
  [id |-> Cardinality(rows) + 1, email |-> trim(toLowerCase(body.email)),
   discord_id |-> body.discord_id, google_id |-> FALSE, is_deleted |-> FALSE]

\* a variant of registerUserReturned: the welcome email is forgotten
registerUserReturned_noMail(r) ==
  /\ process = "running"
  /\ req[r].pc = "await_registerUser"
  /\ Cardinality(users) < MaxUsers
  /\ users' = users \cup {newUser(users, req[r].body)}
  /\ req' = [req EXCEPT ![r].pc = "returned",
                        ![r].row = newUser(users, req[r].body).id,
                        ![r].trace = @ \o <<"registerUser:returned", "done">>,
                        ![r].done = Append(@, DoneCall([email |-> trim(toLowerCase(req[r].body.email)),
                                                        discord_id |-> req[r].body.discord_id],
                                                       "success", RegistrationSuccessful))]
  /\ UNCHANGED <<notSu, guildIdCfg, slots>>

\* sendWelcomeEmail(email, name): fire-and-forget; the delivery succeeds or
\* fails without the caller being told
sendWelcomeEmail(delivered) == IF delivered THEN "delivered" ELSE "failed"

\* a variant of registerUserReturned: the dispatch is awaited inside the try
\* block, so a failed delivery lands in the catch block
registerUserReturned_awaitsMail(r) ==
  /\ process = "running"
  /\ req[r].pc = "await_registerUser"
  /\ Cardinality(users) < MaxUsers
  /\ users' = users \cup {newUser(users, req[r].body)}
  /\ \E delivered \in BOOLEAN :
       LET outcome ==
             IF ~delivered
               THEN DoneCall(NoUser, "error",
                             catchReason(CommitError(<<"delivery failed">>, ""), req[r].body))
               ELSE DoneCall([email |-> trim(toLowerCase(req[r].body.email)),
                              discord_id |-> req[r].body.discord_id],
                             "success", RegistrationSuccessful)
       IN req' = [req EXCEPT ![r].pc = "returned",
                             ![r].row = newUser(users, req[r].body).id,
                             ![r].mail = sendWelcomeEmail(delivered),
                             ![r].trace = @ \o <<"registerUser:returned", "sendWelcomeEmail", "done">>,
                             ![r].done = Append(@, outcome)]
  /\ UNCHANGED <<notSu, guildIdCfg, slots>>

\* lines 146-148: registerUser returned the user; sendWelcomeEmail is called
\* and not awaited; done reports the user.
registerUserReturned(r) ==
  /\ process = "running"
  /\ req[r].pc = "await_registerUser"
  /\ Cardinality(users) < MaxUsers
  /\ users' = users \cup {newUser(users, req[r].body)}
  /\ \E delivered \in BOOLEAN :
       req' = [req EXCEPT ![r].pc = "returned",
                          ![r].row = newUser(users, req[r].body).id,
                          ![r].mail = sendWelcomeEmail(delivered),
                          ![r].trace = @ \o <<"registerUser:returned", "sendWelcomeEmail", "done">>,
                          ![r].done = Append(@, DoneCall([email |-> trim(toLowerCase(req[r].body.email)),
                                                          discord_id |-> req[r].body.discord_id],
                                                         "success", RegistrationSuccessful))]
  /\ UNCHANGED <<notSu, guildIdCfg, slots>>

\* lines 149-175: registerUser threw; the catch block reports a reason
registerUserThrew(r) ==
  /\ process = "running"
  /\ req[r].pc = "await_registerUser"
  /\ \E e \in CommitErrors :
       req' = [req EXCEPT ![r].pc = "returned",
                          ![r].error = e,
                          ![r].trace = @ \o <<"registerUser:threw", "done">>,
                          ![r].done = Append(@, DoneCall(NoUser, "error", catchReason(e, req[r].body)))]
  /\ UNCHANGED <<notSu, users, guildIdCfg, slots>>

\* the request is over (done was called); the next one may arrive
nextRequest(r) ==
  /\ process = "running"
  /\ req[r].pc = "returned"
  /\ req' = [req EXCEPT ![r] = IdleReq]
  /\ UNCHANGED <<notSu, users, guildIdCfg, slots>>

suNext ==
  \/ \E r \in slots : handleSignUp(r)
  \/ \E r \in slots : nextRequest(r)
  \/ \E r \in slots : resumeDiscordIdTaken(r)
  \/ \E r \in slots : resumeUserInGuild(r)
  \/ \E r \in slots : resumeGoogleAccountFound(r)
  \/ \E r \in slots : resumeAccountDeactivated(r)
  \/ \E r \in slots : registerUserReturned(r)
  \/ \E r \in slots : registerUserThrew(r)

Reqs == {1, 2}

suInit ==
  /\ users \in SUBSET SeedUsers
  /\ guildIdCfg \in BOOLEAN
  /\ slots = {1}
  /\ req = [r \in Reqs |-> IdleReq]

(***************************************************************************)
(* isValidDiscordIdFormat on its own                                       *)
(***************************************************************************)
NonDigits == {"a", "x", " ", "-", "\n"}

\* s with its i-th character replaced by c (i = 0: s itself)
withChar(s, i, c) == [j \in 1..Len(s) |-> IF j = i THEN c ELSE s[j]]

\* digit strings of every length up to MaxIdLen, and the same with one
\* character that is not a digit
FormatInputs ==
  { withChar(DigitString(n), i, c) : n \in 0..MaxIdLen, i \in 0..MaxIdLen, c \in NonDigits }

IdleFmt == [arg |-> <<>>, result |-> "untested"]

\* isValidDiscordIdFormat(fmt.arg) is evaluated
testFormat ==
  /\ fmt.result = "untested"
  /\ fmt' = [fmt EXCEPT !.result = IF isValidDiscordIdFormat(fmt.arg) THEN "true" ELSE "false"]
  /\ UNCHANGED notFmt

(***************************************************************************)
(* Session Bridge: session-middleware.ts                                   *)
(***************************************************************************)
RECURSIVE concat(_)
concat(parts) == IF parts = <<>> THEN <<>> ELSE Head(parts) \o concat(Tail(parts))

\* String.prototype.split(sep) for a one-character separator
RECURSIVE split(_, _)
split(s, sep) ==
  IF \A i \in 1..Len(s) : s[i] # sep THEN <<s>>
  ELSE LET i == CHOOSE i \in 1..Len(s) : s[i] = sep /\ \A j \in 1..(i - 1) : s[j] # sep
       IN <<SubSeq(s, 1, i - 1)>> \o split(SubSeq(s, i + 1, Len(s)), sep)

\* Array.prototype.join(sep)
RECURSIVE join(_, _)
join(parts, sep) ==
  IF parts = <<>> THEN <<>>
  ELSE IF Len(parts) = 1 THEN parts[1]
  ELSE parts[1] \o <<sep>> \o join(Tail(parts), sep)

startsWith(s, prefix) == Len(prefix) <= Len(s) /\ SubSeq(s, 1, Len(prefix)) = prefix

DevelopmentSecret == <<"d", "e", "v", "e", "l", "o", "p", "m", "e", "n", "t", "-", "s", "e", "c", "r", "e", "t", "-", "k", "e", "y">>

\* process.env.SESSION_SECRET || "development-secret-key"
sessionSecret(envSecret) == IF Falsy(envSecret) THEN DevelopmentSecret ELSE envSecret

\* The base64 HMAC-SHA256 digest of val under secret, as an injective keyed
\* digest over the base64 alphabet.
b64Char(c) ==
  CASE c = "." -> "D" [] c = ";" -> "S" [] c = "=" -> "E" [] c = "%" -> "P"
    [] c = " " -> "W" [] c = ":" -> "C" [] OTHER -> c
hmac(val, secret) ==
  <<"+">> \o [i \in 1..Len(secret) |-> b64Char(secret[i])] \o <<"/">> \o
  [i \in 1..Len(val) |-> b64Char(val[i])]

\* cookieSignature.sign(val, secret)
sign(val, secret) == val \o <<".">> \o hmac(val, secret)

\* encodeURIComponent on the characters of the model
pctChar(c) ==
  CASE c = ":" -> <<"%", "3", "A">> [] c = ";" -> <<"%", "3", "B">>
    [] c = "=" -> <<"%", "3", "D">> [] c = "%" -> <<"%", "2", "5">>
    [] c = " " -> <<"%", "2", "0">> [] c = "+" -> <<"%", "2", "B">>
    [] c = "/" -> <<"%", "2", "F">> [] OTHER -> <<c>>
encodeURIComponent(s) == concat([i \in 1..Len(s) |-> pctChar(s[i])])

\* a variant of signedSessionCookie: the signed value is not URL-encoded
signedSessionCookie_unencoded(sid, sname, secret) ==
  sname \o <<"=">> \o <<"s", ":">> \o sign(sid, secret)

\* `${headerSessionName}=${encodeURIComponent(`s:${sign(headerSessionId, secret)}`)}`
signedSessionCookie(sid, sname, secret) ==
  sname \o <<"=">> \o encodeURIComponent(<<"s", ":">> \o sign(sid, secret))

\* a variant of fallbackSessionCookie without the "s:" prefix
fallbackSessionCookie_unprefixed(sid, sname) == sname \o <<"=">> \o sid

\* line 112: `${headerSessionName}=s%3A${headerSessionId}`
fallbackSessionCookie(sid, sname) == sname \o <<"=", "s", "%", "3", "A">> \o sid

keepsCookie(c, sname) == ~startsWith(trim(c), sname)

\* lines 95-99: split(";").filter(...).concat(sessionCookie).join(";")
replaceSessionCookie(cookie, sname, sessionCookie) ==
  join(SelectSeq(split(cookie, ";"), LAMBDA c : keepsCookie(c, sname)) \o <<sessionCookie>>, ";")

\* a variant of headersPresent: `||` for `&&`
headersPresent_either(sid, sname) == ~Falsy(sid) \/ ~Falsy(sname)

\* line 84: if (headerSessionId && headerSessionName)
headersPresent(sid, sname) == ~Falsy(sid) /\ ~Falsy(sname)

\* lines 80-115: req.headers.cookie after the bridge's own code has run
bridgedCookie(cookie, sid, sname, envSecret, signThrows) ==
  IF ~headersPresent(sid, sname) THEN cookie
  ELSE IF signThrows THEN fallbackSessionCookie(sid, sname)
  ELSE IF ~Falsy(cookie)
    THEN replaceSessionCookie(cookie, sname, signedSessionCookie(sid, sname, sessionSecret(envSecret)))
  ELSE signedSessionCookie(sid, sname, sessionSecret(envSecret))

\* ---- inputs ----
SidChars == {"a", "b", ".", ";", "=", "%", " ", ":"}

RECURSIVE StringsUpTo(_)
StringsUpTo(n) ==
  IF n = 0 THEN {<<>>}
  ELSE LET shorter == StringsUpTo(n - 1)
       IN shorter \cup {Append(s, c) : s \in shorter, c \in SidChars}

\* header values: the HTTP parser has stripped the surrounding whitespace
SessionIds == {Undefined} \cup {s \in StringsUpTo(MaxSidLen) : trim(s) = s}
SessionNames == {Undefined, <<>>, <<"s", "i", "d">>, <<"s">>}
CookieHeaders ==
  { Undefined, <<>>,
    <<"a", "=", "1">>,
    <<"s", "i", "d", "=", "o">>,
    <<"a", "=", "1", ";", " ", "s", "i", "d", "=", "o">>,
    <<"s", "i", "d", "=", "o", ";", " ", "a", "=", "1">>,
    <<"s", "i", "d", "x", "=", "1", ";", " ", "a", "=", "1">>,
    <<"a", "=", "s", "i", "d", ";", "s", "=", "2">> }
EnvSecrets == {Undefined, <<"K">>}

NoError == "none"
EngineErrors == {NoError, "store failure"}

IdleHttp == [stage |-> "none", sid |-> Undefined, sname |-> Undefined, received |-> Undefined,
             cookie |-> Undefined, envSecret |-> Undefined, signThrows |-> FALSE,
             engineCalls |-> 0, engineErr |-> NoError, next |-> <<>>]

\* lines 80-118: the bridge rewrites req.headers.cookie and calls the engine
sessionBridge ==
  /\ http.stage = "received"
  /\ http' = [http EXCEPT !.stage = "bridged", !.engineCalls = @ + 1,
                          !.cookie = bridgedCookie(http.cookie, http.sid, http.sname,
                                                   http.envSecret, http.signThrows)]
  /\ UNCHANGED notHttp

\* a variant of forwardedError: the engine's error is logged and not passed on
forwardedError_swallowed(err) == NoError

\* line 129: next(err)
forwardedError(err) == err

\* lines 118-130: the engine calls back with err; the callback calls next(err)
sessionEngine ==
  /\ http.stage = "bridged"
  /\ \E err \in EngineErrors :
       http' = [http EXCEPT !.stage = "next", !.engineErr = err,
                            !.next = Append(@, forwardedError(err))]
  /\ UNCHANGED notHttp

(***************************************************************************)
(* sendEmail: passport/index.ts 275-340                                    *)
(***************************************************************************)
\* Array.from(new Set(list)): the first occurrence of each element, in order
uniq(list) ==
  LET firsts == {i \in 1..Len(list) : \A j \in 1..(i - 1) : list[j] # list[i]}
      pick[i \in 0..Len(list)] ==
        IF i = 0 THEN <<>>
        ELSE IF i \in firsts THEN Append(pick[i - 1], list[i]) ELSE pick[i - 1]
  IN pick[Len(list)]

\* email && typeof email === 'string' && email.trim().length > 0
isNonBlankString(e) == ~Falsy(e) /\ Len(trim(e)) > 0

\* isValidateEmail (shared/utils): one "@" with text on both sides, no space
isValidateEmail(e) ==
  /\ Cardinality({i \in 1..Len(e) : e[i] = "@"}) = 1
  /\ e[1] # "@" /\ e[Len(e)] # "@"
  /\ \A i \in 1..Len(e) : e[i] # " "

\* lines 297-303: options.to after deduplication, trimming and validation
\* (Array.isArray(options.to) fails for NotAnArray)
cleanRecipients(to) ==
  IF ~to.isArray THEN <<>>
  ELSE LET kept == SelectSeq(uniq(to.items), isNonBlankString)
           trimmed == [i \in 1..Len(kept) |-> trim(kept[i])]
       IN SelectSeq(trimmed, isValidateEmail)

\* a variant of removeMails: nothing is removed
removeMails_keepsAll(listed, emails) == emails

\* lines 275-284: the emails found in the queried list are spliced out
removeMails(listed, emails) == SelectSeq(emails, LAMBDA e : e \notin listed)

\* Array.prototype.join(sep) for a separator of several characters
RECURSIVE joinWith(_, _)
joinWith(parts, sep) ==
  IF parts = <<>> THEN <<>>
  ELSE IF Len(parts) = 1 THEN parts[1]
  ELSE parts[1] \o sep \o joinWith(Tail(parts), sep)

\* ---- inputs ----
AddrA == <<"a", "@", "x">>
AddrB == <<"b", "@", "x">>
RecipientPool == {Undefined, <<>>, AddrA, <<" ">> \o AddrA, AddrB, <<"b", "a", "d">>}

RECURSIVE ListsUpTo(_, _)
ListsUpTo(pool, n) ==
  IF n = 0 THEN {<<>>}
  ELSE LET shorter == ListsUpTo(pool, n - 1)
       IN shorter \cup {Append(l, x) : l \in shorter, x \in pool}

NotAnArray == [isArray |-> FALSE, items |-> <<>>]
RecipientLists ==
  {NotAnArray} \cup {[isArray |-> TRUE, items |-> l] : l \in ListsUpTo(RecipientPool, MaxRecipients)}
ListedEmails == SUBSET {AddrA, AddrB}

NotCalled == <<"not called">>
Null == <<"null">>
MessageId == <<"<", "i", "d", ">">>

IdleMailer == [stage |-> "none", input |-> NotAnArray, bounced |-> {}, spam |-> {},
               bodyValid |-> FALSE, to |-> <<>>, handed |-> NotCalled,
               sendMailCalls |-> 0, mirrored |-> FALSE, failed |-> FALSE,
               result |-> NotCalled]

\* lines 335-339: whatever the try block throws is logged, and null is returned
caught(error) == Null

\* an awaited call inside the try block failed with `error`
mailerFails(error) ==
  mailer' = [mailer EXCEPT !.stage = "returned", !.failed = TRUE, !.result = caught(error)]

\* lines 294-306: the recipients are cleaned; with recipients left the
\* bounced_emails query is sent, without any null is returned (line 311)
sendEmail ==
  /\ mailer.stage = "called"
  /\ LET to == cleanRecipients(mailer.input) IN
       IF Len(to) > 0
         THEN mailer' = [mailer EXCEPT !.stage = "await_bounced", !.to = to]
         ELSE mailer' = [mailer EXCEPT !.stage = "returned", !.to = to, !.result = Null]
  /\ UNCHANGED notMailer

\* lines 306-307: filterBouncedEmails settles; the spam_emails query is sent
bouncedSettled ==
  /\ mailer.stage = "await_bounced"
  /\ \E queryOk \in BOOLEAN :
       IF ~queryOk THEN mailerFails("bounced_emails query")
       ELSE mailer' = [mailer EXCEPT !.stage = "await_spam",
                                     !.to = removeMails(mailer.bounced, mailer.to)]
  /\ UNCHANGED notMailer

\* lines 307-321: filterSpamEmails settles; the checks of lines 311 and 313;
\* transporter.sendMail is called
spamSettled ==
  /\ mailer.stage = "await_spam"
  /\ \E queryOk \in BOOLEAN :
       IF ~queryOk THEN mailerFails("spam_emails query")
       ELSE LET to == removeMails(mailer.spam, mailer.to) IN
            IF Len(to) = 0 \/ ~mailer.bodyValid
              THEN mailer' = [mailer EXCEPT !.stage = "returned", !.to = to, !.result = Null]
              ELSE mailer' = [mailer EXCEPT !.stage = "await_sendMail", !.to = to,
                                            !.handed = joinWith(to, <<",", " ">>),
                                            !.sendMailCalls = @ + 1]
  /\ UNCHANGED notMailer

\* lines 316-339: transporter.sendMail settles
sendMailSettled ==
  /\ mailer.stage = "await_sendMail"
  /\ \E outcome \in {"id", "no id", "rejected"} :
       IF outcome = "rejected" THEN mailerFails("sendMail")
       ELSE mailer' = [mailer EXCEPT !.stage = "returned",
                                     !.mirrored = (outcome = "id"),
                                     !.result = IF outcome = "id" THEN MessageId ELSE Null]
  /\ UNCHANGED notMailer

(***************************************************************************)
(* Identity Provider Registry: passport/index.ts 13-54                     *)
(***************************************************************************)
\* a variant of providerConfigured: `||` for `&&`
providerConfigured_either(id, secret) == ~Falsy(id) \/ ~Falsy(secret)

\* process.env.X_CLIENT_ID && process.env.X_CLIENT_SECRET
providerConfigured(id, secret) == ~Falsy(id) /\ ~Falsy(secret)

\* the names passport.use is called with, in the order of lines 16-36
activeStrategies(env) ==
  <<"local-login", "local-signup">>
  \o (IF providerConfigured(env.GOOGLE_CLIENT_ID, env.GOOGLE_CLIENT_SECRET)
        THEN <<"google", "google-mobile">> ELSE <<>>)
  \o (IF providerConfigured(env.DISCORD_CLIENT_ID, env.DISCORD_CLIENT_SECRET)
        THEN <<"discord">> ELSE <<>>)

\* ---- inputs: an environment variable is unset, empty or set ----
EnvValues == {Undefined, <<>>, <<"x">>}
Environments ==
  [GOOGLE_CLIENT_ID : EnvValues, GOOGLE_CLIENT_SECRET : EnvValues,
   DISCORD_CLIENT_ID : EnvValues, DISCORD_CLIENT_SECRET : EnvValues,
   LOGIN_SUCCESS_REDIRECT : {Undefined, <<"x">>}, LOGIN_FAILURE_REDIRECT : {Undefined, <<"x">>}]

NoEnvironment ==
  [GOOGLE_CLIENT_ID |-> Undefined, GOOGLE_CLIENT_SECRET |-> Undefined,
   DISCORD_CLIENT_ID |-> Undefined, DISCORD_CLIENT_SECRET |-> Undefined,
   LOGIN_SUCCESS_REDIRECT |-> Undefined, LOGIN_FAILURE_REDIRECT |-> Undefined]

IdleRegistry == [stage |-> "none", env |-> NoEnvironment, strategies |-> <<>>,
                 serializers |-> FALSE, errorsLogged |-> 0, outcome |-> "none"]

\* lines 48-53: one console.error per missing redirect URL
redirectErrors(env) ==
  (IF Falsy(env.LOGIN_SUCCESS_REDIRECT) THEN 1 ELSE 0)
  + (IF Falsy(env.LOGIN_FAILURE_REDIRECT) THEN 1 ELSE 0)

\* export default (passport) => { ... }: the registry runs at startup
registerStrategies ==
  /\ registry.stage = "startup"
  /\ registry' = [registry EXCEPT !.stage = "registered",
                                  !.strategies = activeStrategies(registry.env),
                                  !.serializers = TRUE,
                                  !.errorsLogged = redirectErrors(registry.env),
                                  !.outcome = "returned"]
  /\ UNCHANGED notRegistry

(***************************************************************************)
(* Database: migrations/20251108000000-...-null-team-id.sql                *)
(* SQL values are strings (sequences), NULL is the value SqlNull; a        *)
(* condition is "true", "false" or "null", and IF and WHERE take "true".   *)
(***************************************************************************)
SqlNull == <<"NULL">>

\* a <> b under three-valued logic
sqlNe(a, b) ==
  IF a = SqlNull \/ b = SqlNull THEN "null" ELSE IF a # b THEN "true" ELSE "false"

\* a IS NOT NULL (never null itself)
isNotNull(a) == IF a # SqlNull THEN "true" ELSE "false"

\* p AND q under three-valued logic
sqlAnd(p, q) ==
  IF p = "false" \/ q = "false" THEN "false"
  ELSE IF p = "null" \/ q = "null" THEN "null"
  ELSE "true"

\* a IS DISTINCT FROM b
isDistinctFrom(a, b) == a # b

Returned(row) == [raised |-> FALSE, row |-> row]
Raised(message) == [raised |-> TRUE, message |-> message]

\* lines 277-292: the trigger function
prevent_discord_id_update(old, new) ==
  IF old.discord_id = SqlNull /\ new.discord_id # SqlNull THEN Returned(new)
  ELSE IF sqlAnd(isNotNull(old.discord_id), sqlNe(old.discord_id, new.discord_id)) = "true"
    THEN Raised("Discord ID cannot be changed once set")
  ELSE Returned(new)

\* lines 295-300: BEFORE UPDATE ON users FOR EACH ROW WHEN (OLD.discord_id IS
\* DISTINCT FROM NEW.discord_id)
trigger_prevent_discord_id_update(old, new) ==
  IF isDistinctFrom(old.discord_id, new.discord_id)
    THEN prevent_discord_id_update(old, new)
    ELSE Returned(new)

\* ---- tables ----
UserRow(id, email, discordId, activeTeam) ==
  [id |-> id, email |-> email, discord_id |-> discordId, active_team |-> activeTeam,
   is_deleted |-> FALSE]

IdleDb == [users |-> <<>>, teams |-> {}, team_members |-> {},
           notification_settings |-> {}, calls |-> <<>>]

DiscordIdValues == {SqlNull, <<"1", "1">>, <<"2", "2">>}

\* UPDATE users SET discord_id = value WHERE id = users[u].id, under the trigger
updateDiscordId(u, value) ==
  /\ Len(db.calls) < MaxDbCalls
  /\ u \in 1..Len(db.users)
  /\ LET old == db.users[u]
         new == [old EXCEPT !.discord_id = value]
         outcome == trigger_prevent_discord_id_update(old, new)
         call == [op |-> "update", row |-> u, old |-> old.discord_id, new |-> value,
                  raised |-> outcome.raised]
     IN IF outcome.raised
          THEN db' = [db EXCEPT !.calls = Append(@, call)]
          ELSE db' = [db EXCEPT !.users[u] = outcome.row, !.calls = Append(@, call)]
  /\ UNCHANGED notDb

updateUser == \E u \in 1..Len(db.users), value \in DiscordIdValues : updateDiscordId(u, value)

\* ---- deserialize_user: lines 12-104 ----
\* lines 20-39: the columns of the CTE notification_data
notificationDataColumns ==
  {"id", "name", "email", "avatar_url", "active_team", "active_project", "socket_id",
   "timezone", "default_view", "setup_completed", "build_v", "last_project",
   "organization_id", "license_type_id", "notifications_popup_timeout",
   "pending_tasks_count", "email_notifications_enabled", "show_unread_items_count",
   "popup_notifications_enabled", "daily_digest_enabled"}

\* lines 54-85: the columns of notification_data (nd) that complete_user_data names
completeUserDataReferences ==
  {"id", "name", "email", "avatar_url", "active_team", "active_project", "socket_id",
   "timezone", "default_view", "setup_completed", "build_v", "last_project",
   "organization_id", "license_type_id", "notifications_popup_timeout",
   "pending_tasks_count", "email_notifications_enabled", "show_unread_items_count",
   "popup_notifications_enabled", "daily_digest_enabled",
   "team_id"}

userById(d, id) == d.users[CHOOSE u \in 1..Len(d.users) : d.users[u].id = id]

\* lines 19-46 and 54-79: the columns of the view that depend on the tables modelled
identityView(d, id) ==
  LET u == userById(d, id)
  IN [id |-> u.id, email |-> u.email, active_team |-> u.active_team,
      email_notifications_enabled |-> TRUE, show_unread_items_count |-> TRUE,
      popup_notifications_enabled |-> TRUE, daily_digest_enabled |-> FALSE]

\* lines 19-87: SELECT ... INTO _result; the statement is planned when it is first
\* run, and a column the CTE does not have makes it raise undefined_column
selectCompleteUserData(d, id) ==
  IF \E c \in completeUserDataReferences : c \notin notificationDataColumns
    THEN Raised(<<"column nd.",
                  CHOOSE c \in completeUserDataReferences : c \notin notificationDataColumns,
                  " does not exist">>)
    ELSE Returned(identityView(d, id))

\* COALESCE(a, b)
coalesce(a, b) == IF a # SqlNull THEN a ELSE b

\* line 96: what (SELECT id FROM teams WHERE user_id = _id LIMIT 1) can yield
ownedTeamLimit1(d, id) ==
  LET owned == {t.id : t \in {x \in d.teams : x.user_id = id}}
  IN IF owned = {} THEN {SqlNull} ELSE owned

\* a variant of settingsRowsToInsert without the WHERE of line 99
settingsRowsToInsert_noWhere(d, id, limit1) ==
  {[user_id |-> id, team_id |-> coalesce(userById(d, id).active_team, limit1)]}

\* lines 92-99: the rows the INSERT's SELECT yields, `limit1` being the row of
\* the LIMIT 1 subquery
settingsRowsToInsert(d, id, limit1) ==
  LET _team_id == coalesce(userById(d, id).active_team, limit1)
  IN IF _team_id # SqlNull THEN {[user_id |-> id, team_id |-> _team_id]} ELSE {}

\* lines 91 and 100: INSERT ... ON CONFLICT (user_id, team_id) DO NOTHING
insertOnConflictDoNothing(table, rows) == table \cup rows

\* lines 18-103: the function body; an error leaves the tables as they were
deserialize_user(d, id, limit1) ==
  LET selected == selectCompleteUserData(d, id)
  IN IF selected.raised THEN [db |-> d, result |-> selected]
     ELSE [db |-> [d EXCEPT !.notification_settings =
                              insertOnConflictDoNothing(@, settingsRowsToInsert(d, id, limit1))],
           result |-> selected]

UserIds(d) == {d.users[u].id : u \in 1..Len(d.users)}

\* SELECT deserialize_user(id)
deserializeUser ==
  /\ Len(db.calls) < MaxDbCalls
  /\ \E id \in UserIds(db) : \E limit1 \in ownedTeamLimit1(db, id) :
       LET out == deserialize_user(db, id, limit1)
           call == [op |-> "deserialize_user", id |-> id, result |-> out.result,
                    settings |-> out.db.notification_settings]
       IN db' = [out.db EXCEPT !.calls = Append(@, call)]
  /\ UNCHANGED notDb

TeamIds == {<<"t1">>, <<"t2">>}

\* ---- register_discord_user: lines 110-236 ----
\* TRIM(text), LOWER(text): NULL in, NULL out
sqlTrim(text) == IF text = SqlNull THEN SqlNull ELSE trim(text)
sqlLower(text) == IF text = SqlNull THEN SqlNull ELSE toLowerCase(text)

\* the texts the cast ::UUID accepts
UuidTexts == {<<"m1">>, <<"m2">>, <<"m9">>}

\* lines 130-131 and 151-152: SELECT * INTO _existing_user ... (the first row, or
\* a record of NULLs); a comparison with NULL selects nothing
selectUser(d, column, value) ==
  LET found == {u \in 1..Len(d.users) :
                  /\ value # SqlNull
                  /\ d.users[u][column] = value
                  /\ d.users[u].is_deleted = FALSE}
  IN IF found = {} THEN [id |-> SqlNull, email |-> SqlNull]
     ELSE d.users[CHOOSE u \in found : \A v \in found : u <= v]

\* a variant of setActiveTeam that leaves the row as it is
setActiveTeam_skipped(usersTable, userId, teamId) == usersTable

\* lines 189 and 216: UPDATE users SET active_team = _team_id WHERE id = _user_id
setActiveTeam(usersTable, userId, teamId) ==
  [u \in 1..Len(usersTable) |->
     IF usersTable[u].id = userId
       THEN [usersTable[u] EXCEPT !.active_team = teamId]
       ELSE usersTable[u]]

\* lines 182-185: UPDATE team_members SET user_id = _user_id WHERE id = ...
bindTeamMember(members, memberId, userId) ==
  {IF m.id = memberId THEN [m EXCEPT !.user_id = userId] ELSE m : m \in members}

\* RETURNING team_id INTO _team_id: NULL when no row was updated
returningTeamId(members, memberId) ==
  IF \E m \in members : m.id = memberId
    THEN (CHOOSE m \in members : m.id = memberId).team_id
    ELSE SqlNull

\* lines 243-248: notification_settings_insert_trigger_fn, run AFTER INSERT OR
\* UPDATE OF user_id on team_members when NEW.user_id IS NOT NULL; it returns
\* or raises
insert_notification_settings(fnReturns) ==
  IF fnReturns THEN Returned(SqlNull) ELSE Raised("notification_settings_insert_trigger_fn")

\* lines 122-235: the function body; an error leaves the tables as they were
register_discord_user(d, _body, fnReturns) ==
  LET _discord_id == sqlTrim(_body.id)
      _user_email == sqlLower(sqlTrim(_body.email))
      byDiscordId == selectUser(d, "discord_id", _discord_id)
      byEmail == selectUser(d, "email", _user_email)
      _user_id == <<"u" \o ToString(Len(d.users) + 1)>>
      inserted == [d EXCEPT !.users = Append(@, UserRow(_user_id, _user_email, _discord_id, SqlNull))]
      fails(message) == [db |-> d, created |-> FALSE, userId |-> _user_id,
                         result |-> Raised(message)]
  IN
  IF byDiscordId.id # SqlNull
    THEN [db |-> d, created |-> FALSE, userId |-> byDiscordId.id,
          result |-> Returned([id |-> byDiscordId.id, email |-> byDiscordId.email,
                               discord_id |-> _discord_id])]
  ELSE IF byEmail.id # SqlNull THEN fails("EMAIL_EXISTS")
  ELSE IF _body.teamMember # SqlNull /\ _body.teamMember # <<>>
    THEN IF _body.teamMember \notin UuidTexts
           THEN fails("invalid input syntax for type uuid")
         ELSE LET _team_id == returningTeamId(d.team_members, _body.teamMember)
                  bound == [inserted EXCEPT
                              !.team_members = bindTeamMember(@, _body.teamMember, _user_id)]
              IN IF _team_id # SqlNull /\ insert_notification_settings(fnReturns).raised
                   THEN fails("notification_settings_insert_trigger_fn")
                 ELSE [db |-> IF _team_id # SqlNull
                                THEN [bound EXCEPT !.users = setActiveTeam(@, _user_id, _team_id)]
                                ELSE bound,
                       created |-> TRUE, userId |-> _user_id,
                       result |-> Returned([id |-> _user_id, email |-> _user_email,
                                            discord_id |-> _discord_id,
                                            active_team |-> _team_id])]
  ELSE IF insert_notification_settings(fnReturns).raised
    THEN fails("notification_settings_insert_trigger_fn")
  ELSE LET _team_id == <<"t" \o ToString(Cardinality(d.teams) + 1)>>
           owner == [id |-> <<"o" \o ToString(Cardinality(d.team_members) + 1)>>,
                     user_id |-> _user_id, team_id |-> _team_id]
       IN [db |-> [inserted EXCEPT
                     !.teams = @ \cup {[id |-> _team_id, user_id |-> _user_id]},
                     !.users = setActiveTeam(@, _user_id, _team_id),
                     !.team_members = @ \cup {owner}],
           created |-> TRUE, userId |-> _user_id,
           result |-> Returned([id |-> _user_id, email |-> _user_email,
                                discord_id |-> _discord_id, active_team |-> _team_id])]

RegisterBodies ==
  [id : {<<"1", "1">>, <<" ", "2", "2">>},
   email : {<<"a", "@", "x">>, <<"B", "@", "x">>},
   teamMember : {SqlNull, <<>>, <<"m1">>, <<"m9">>, <<"x">>}]

\* SELECT register_discord_user(body)
registerDiscordUser ==
  /\ Len(db.calls) < MaxRegistrations
  /\ \E _body \in RegisterBodies, fnReturns \in BOOLEAN :
       LET out == register_discord_user(db, _body, fnReturns)
           call == [op |-> "register_discord_user", body |-> _body, result |-> out.result,
                    created |-> out.created, userId |-> out.userId]
       IN db' = [out.db EXCEPT !.calls = Append(@, call)]
  /\ UNCHANGED notDb

(***************************************************************************)
(* OAuth endpoints: routes/auth/index.ts 33-165                            *)
(***************************************************************************)
\* a variant of configMissing that needs both values to be missing
configMissing_both(a, b) == Falsy(a) /\ Falsy(b)

\* lines 36, 67, 105, 136: !process.env.A || !process.env.B
configMissing(a, b) == Falsy(a) \/ Falsy(b)

Endpoints == {"/google", "/google/verify", "/discord", "/discord/verify"}
isVerify(endpoint) == endpoint \in {"/google/verify", "/discord/verify"}
strategyOf(endpoint) ==
  IF endpoint \in {"/google", "/google/verify"} THEN "google" ELSE "discord"

\* the two variables an endpoint tests before it delegates
requiredConfig(endpoint, env) ==
  IF isVerify(endpoint) THEN <<env.LOGIN_FAILURE_REDIRECT, env.LOGIN_SUCCESS_REDIRECT>>
  ELSE IF endpoint = "/google" THEN <<env.GOOGLE_CLIENT_ID, env.GOOGLE_CLIENT_SECRET>>
  ELSE <<env.DISCORD_CLIENT_ID, env.DISCORD_CLIENT_SECRET>>

Response(status, message, calls) == [status |-> status, message |-> message, calls |-> calls]

\* message of the 500 response sent from the catch block
failedMessage(endpoint) ==
  IF endpoint = "/google" THEN "Google authentication failed"
  ELSE IF endpoint = "/google/verify" THEN "Google authentication callback failed"
  ELSE IF endpoint = "/discord" THEN "Discord authentication failed"
  ELSE "Discord authentication callback failed"

\* message of the 500 response sent when the configuration is missing
notConfiguredMessage(endpoint) ==
  IF isVerify(endpoint) THEN "OAuth redirect configuration missing"
  ELSE IF endpoint = "/google" THEN "Google authentication not available"
  ELSE "Discord authentication not available"

\* lines 75-80 and 144-149: the failure redirect, with the session's error
\* appended when there is one
failureRedirect(env, sessionError) ==
  IF Falsy(sessionError) THEN env.LOGIN_FAILURE_REDIRECT
  ELSE env.LOGIN_FAILURE_REDIRECT \o <<"?", "e", "r", "r", "o", "r", "=">>
         \o encodeURIComponent(sessionError)

\* the handlers of lines 33-62, 64-96, 102-131 and 133-165. `session` is
\* "none" when req.session is undefined; `authThrows` says whether the call of
\* passport.authenticate(...)(req, res) throws
authHandler(endpoint, env, session, sessionError, authThrows) ==
  LET config == requiredConfig(endpoint, env)
      call == [strategy |-> strategyOf(endpoint),
               failureRedirect |-> IF isVerify(endpoint)
                                     THEN failureRedirect(env, sessionError)
                                     ELSE Undefined]
  IN IF configMissing(config[1], config[2])
       THEN Response(500, notConfiguredMessage(endpoint), <<>>)
     ELSE IF isVerify(endpoint) /\ session = "none"
       THEN Response(500, failedMessage(endpoint), <<>>)
     ELSE IF authThrows
       THEN Response(500, failedMessage(endpoint), <<call>>)
     ELSE Response(0, "passport", <<call>>)

\* req.session.error after the handler: lines 76-79 and 145-148 delete it once
\* it has been put in the failure redirect
sessionErrorAfter(endpoint, env, session, sessionError) ==
  LET config == requiredConfig(endpoint, env)
  IN IF /\ ~configMissing(config[1], config[2])
        /\ isVerify(endpoint) /\ session # "none"
        /\ ~Falsy(sessionError)
       THEN Undefined
       ELSE sessionError

RouteEnvironments ==
  [GOOGLE_CLIENT_ID : EnvValues, GOOGLE_CLIENT_SECRET : EnvValues,
   DISCORD_CLIENT_ID : EnvValues, DISCORD_CLIENT_SECRET : EnvValues,
   LOGIN_SUCCESS_REDIRECT : EnvValues, LOGIN_FAILURE_REDIRECT : EnvValues]

SessionErrors == {Undefined, <<"a", " ", "b">>}

IdleRoute == [stage |-> "none", endpoint |-> "/google", env |-> NoEnvironment,
              session |-> "none", sessionError |-> Undefined,
              response |-> Response(0, "none", <<>>)]

\* one request is handled
authRequest ==
  /\ route.stage = "received"
  /\ \E authThrows \in BOOLEAN :
       route' = [route EXCEPT
                   !.stage = "responded",
                   !.response = authHandler(route.endpoint, route.env, route.session,
                                            route.sessionError, authThrows),
                   !.sessionError = sessionErrorAfter(route.endpoint, route.env, route.session,
                                                      route.sessionError)]
  /\ UNCHANGED notRoute


\* the components added after the gateway, the orchestrator and the bridge, at rest
restIdle == mailer = IdleMailer /\ db = IdleDb /\ route = IdleRoute

gwInit ==
  /\ client = 0
  /\ conns = <<>>
  /\ initialized = FALSE
  /\ reconnectAttempts = 0
  /\ timers = 0
  /\ backoff = <<>>
  /\ dropped = 0
  /\ botToken \in BOOLEAN
  /\ ret = NoRet
  /\ query = IdleQuery
  /\ process = "running"

gwNext ==
  \/ initialize
  \/ \E k \in 1..Len(conns) : loginResolved(k)
  \/ \E k \in 1..Len(conns) : loginRejected(k)
  \/ \E k \in 1..Len(conns) : onReady(k)
  \/ \E k \in 1..Len(conns) : readyTimeout(k)
  \/ \E k \in 1..Len(conns) : handleReconnect(k)
  \/ reconnectTimer
  \/ shutdown
  \/ queryGuild
  \/ guildsFetchSettled
  \/ membersFetchSettled

gwIdle ==
  /\ client = 0 /\ conns = <<>> /\ initialized = FALSE /\ reconnectAttempts = 0
  /\ timers = 0 /\ backoff = <<>> /\ dropped = 0 /\ botToken = FALSE /\ ret = NoRet
  /\ query = IdleQuery /\ process = "running"

suIdle == users = {} /\ guildIdCfg = FALSE /\ slots = {} /\ req = [r \in Reqs |-> IdleReq]

\* ---- the signup orchestrator, with the gateway calls the application makes
\* around signups: startup, the ready acknowledgment, shutdown ----
Init == gwInit /\ suInit /\ fmt = IdleFmt /\ http = IdleHttp /\ registry = IdleRegistry /\ restIdle

Next ==
  \/ \E r \in slots : handleSignUp(r)
  \/ \E r \in slots : nextRequest(r)
  \/ \E r \in slots : resumeDiscordIdTaken(r)
  \/ \E r \in slots : resumeUserInGuild(r)
  \/ \E r \in slots : resumeGoogleAccountFound(r)
  \/ \E r \in slots : resumeAccountDeactivated(r)
  \/ \E r \in slots : registerUserReturned(r)
  \/ \E r \in slots : registerUserThrew(r)
  \/ initialize
  \/ \E k \in 1..Len(conns) : onReady(k)
  \/ shutdown

Spec == Init /\ [][Next]_vars

\* ---- the gateway on its own, with its reconnect machinery ----
GatewayInit == gwInit /\ suIdle /\ fmt = IdleFmt /\ http = IdleHttp /\ registry = IdleRegistry /\ restIdle

SpecGateway == GatewayInit /\ [][gwNext]_vars

\* ---- the format validator applied to one input ----
FormatInit ==
  /\ gwIdle /\ suIdle /\ http = IdleHttp /\ registry = IdleRegistry /\ restIdle
  /\ fmt \in [arg : FormatInputs, result : {"untested"}]

FormatNext == testFormat

SpecFormat == FormatInit /\ [][FormatNext]_vars

\* ---- the session bridge on one request; signing does not fail on the
\* string header values an HTTP request carries ----
BridgeInit ==
  /\ gwIdle /\ suIdle /\ fmt = IdleFmt /\ registry = IdleRegistry /\ restIdle
  /\ \E sid \in SessionIds, sname \in SessionNames, cookie \in CookieHeaders, env \in EnvSecrets :
       http = [IdleHttp EXCEPT !.stage = "received", !.sid = sid, !.sname = sname,
                               !.received = cookie, !.cookie = cookie, !.envSecret = env]

BridgeNext ==
  \/ sessionBridge
  \/ sessionEngine

SpecBridge == BridgeInit /\ [][BridgeNext]_vars

\* ---- the session bridge on one request, cookieSignature.sign throwing or not ----
BridgeFaultInit ==
  /\ gwIdle /\ suIdle /\ fmt = IdleFmt /\ registry = IdleRegistry /\ restIdle
  /\ \E sid \in SessionIds, sname \in SessionNames, cookie \in CookieHeaders, env \in EnvSecrets,
        throws \in BOOLEAN :
       http = [IdleHttp EXCEPT !.stage = "received", !.sid = sid, !.sname = sname,
                               !.received = cookie, !.cookie = cookie, !.envSecret = env,
                               !.signThrows = throws]

SpecBridgeFault == BridgeFaultInit /\ [][BridgeNext]_vars

\* ---- two signup requests in flight at once ----
\* bodies that pass the gates of lines 102-117
AcceptedBodies == {b \in Bodies : syncGates(b) = NoReason}

\* handleSignUp as it waits at line 120, entered with body b
entered(b) == [IdleReq EXCEPT !.body = b, !.pc = "await_isDiscordIdTaken",
                              !.trace = <<"isDiscordIdTaken">>]

ConcurrentInit ==
  /\ gwInit /\ fmt = IdleFmt /\ http = IdleHttp /\ registry = IdleRegistry /\ restIdle
  /\ users \in {{}, SeedUsers}
  /\ guildIdCfg = TRUE
  /\ slots = Reqs
  /\ \E b1 \in AcceptedBodies, b2 \in AcceptedBodies : req = <<entered(b1), entered(b2)>>

ConcurrentNext ==
  \/ \E r \in slots : resumeDiscordIdTaken(r)
  \/ \E r \in slots : resumeUserInGuild(r)
  \/ \E r \in slots : resumeGoogleAccountFound(r)
  \/ \E r \in slots : resumeAccountDeactivated(r)
  \/ \E r \in slots : registerUserReturned(r)
  \/ \E r \in slots : registerUserThrew(r)
  \/ initialize
  \/ \E k \in 1..Len(conns) : onReady(k)
  \/ shutdown

SpecConcurrent == ConcurrentInit /\ [][ConcurrentNext]_vars

\* ---- one sendEmail call ----
MailerInit ==
  /\ gwIdle /\ suIdle /\ fmt = IdleFmt /\ http = IdleHttp /\ registry = IdleRegistry
  /\ db = IdleDb /\ route = IdleRoute
  /\ \E to \in RecipientLists, bounced \in ListedEmails, spam \in ListedEmails, valid \in BOOLEAN :
       mailer = [IdleMailer EXCEPT !.stage = "called", !.input = to, !.bounced = bounced,
                                   !.spam = spam, !.bodyValid = valid]

MailerNext ==
  \/ sendEmail
  \/ bouncedSettled
  \/ spamSettled
  \/ sendMailSettled

SpecMailer == MailerInit /\ [][MailerNext]_vars

\* ---- UPDATEs of users.discord_id under the trigger ----
TriggerInit ==
  /\ gwIdle /\ suIdle /\ fmt = IdleFmt /\ http = IdleHttp /\ registry = IdleRegistry
  /\ mailer = IdleMailer /\ route = IdleRoute
  /\ \E d1 \in DiscordIdValues, d2 \in DiscordIdValues :
       db = [IdleDb EXCEPT !.users = <<UserRow(<<"u1">>, <<"a", "@", "x">>, d1, SqlNull),
                                       UserRow(<<"u2">>, <<"b", "@", "x">>, d2, SqlNull)>>]

TriggerNext ==
  \/ updateUser

SpecTrigger == TriggerInit /\ [][TriggerNext]_vars

\* ---- deserialize_user calls ----
DeserializeInit ==
  /\ gwIdle /\ suIdle /\ fmt = IdleFmt /\ http = IdleHttp /\ registry = IdleRegistry
  /\ mailer = IdleMailer /\ route = IdleRoute
  /\ \E a1 \in TeamIds \cup {SqlNull}, a2 \in TeamIds \cup {SqlNull},
        o1 \in {<<"u1">>, <<"u2">>}, o2 \in {<<"u1">>, <<"u2">>},
        settings \in SUBSET [user_id : {<<"u1">>, <<"u2">>}, team_id : TeamIds] :
       db = [IdleDb EXCEPT
               !.users = <<UserRow(<<"u1">>, <<"a", "@", "x">>, SqlNull, a1),
                           UserRow(<<"u2">>, <<"b", "@", "x">>, SqlNull, a2)>>,
               !.teams = {[id |-> <<"t1">>, user_id |-> o1], [id |-> <<"t2">>, user_id |-> o2]},
               !.notification_settings = settings]

DeserializeNext ==
  \/ deserializeUser

SpecDeserialize == DeserializeInit /\ [][DeserializeNext]_vars

\* ---- register_discord_user calls ----
RegisterDiscordInit ==
  /\ gwIdle /\ suIdle /\ fmt = IdleFmt /\ http = IdleHttp /\ registry = IdleRegistry
  /\ mailer = IdleMailer /\ route = IdleRoute
  /\ \E d1 \in {SqlNull, <<"1", "1">>}, invited \in {SqlNull, <<"u1">>} :
       db = [IdleDb EXCEPT
               !.users = <<UserRow(<<"u1">>, <<"a", "@", "x">>, d1, <<"t1">>)>>,
               !.teams = {[id |-> <<"t1">>, user_id |-> <<"u1">>]},
               !.team_members = {[id |-> <<"o1">>, user_id |-> <<"u1">>, team_id |-> <<"t1">>],
                                 [id |-> <<"m1">>, user_id |-> invited, team_id |-> <<"t1">>]}]

RegisterDiscordNext ==
  \/ registerDiscordUser

SpecRegisterDiscord == RegisterDiscordInit /\ [][RegisterDiscordNext]_vars

\* ---- one request to an OAuth endpoint ----
RoutesInit ==
  /\ gwIdle /\ suIdle /\ fmt = IdleFmt /\ http = IdleHttp /\ registry = IdleRegistry
  /\ mailer = IdleMailer /\ db = IdleDb
  /\ \E endpoint \in Endpoints, env \in RouteEnvironments, session \in {"none", "present"},
        sessionError \in SessionErrors :
       /\ session = "none" => sessionError = Undefined
       /\ route = [IdleRoute EXCEPT !.stage = "received", !.endpoint = endpoint, !.env = env,
                                    !.session = session, !.sessionError = sessionError]

RoutesNext ==
  \/ authRequest

SpecRoutes == RoutesInit /\ [][RoutesNext]_vars

\* ---- the identity provider registry at startup ----
RegistryInit ==
  /\ gwIdle /\ suIdle /\ fmt = IdleFmt /\ http = IdleHttp /\ restIdle
  /\ registry \in {[IdleRegistry EXCEPT !.stage = "startup", !.env = env] : env \in Environments}

RegistryNext == registerStrategies

SpecRegistry == RegistryInit /\ [][RegistryNext]_vars


(***************************************************************************)
(* What the session engine does with the cookie header (express-session    *)
(* getcookie: cookie.parse, the "s:" prefix, cookie-signature unsign)      *)
(***************************************************************************)
URIError == <<"URIError">>
False == <<"false">>

unpct(h1, h2) ==
  CASE h1 = "3" /\ h2 = "A" -> ":" [] h1 = "3" /\ h2 = "B" -> ";"
    [] h1 = "3" /\ h2 = "D" -> "=" [] h1 = "2" /\ h2 = "5" -> "%"
    [] h1 = "2" /\ h2 = "0" -> " " [] h1 = "2" /\ h2 = "B" -> "+"
    [] h1 = "2" /\ h2 = "F" -> "/" [] OTHER -> ""

\* decodeURIComponent: URIError on a "%" that starts no escape
RECURSIVE decodeURIComponent(_)
decodeURIComponent(s) ==
  IF s = <<>> THEN <<>>
  ELSE IF Head(s) = "%"
    THEN IF Len(s) < 3 \/ unpct(s[2], s[3]) = "" THEN URIError
         ELSE LET rest == decodeURIComponent(SubSeq(s, 4, Len(s)))
              IN IF rest = URIError THEN URIError ELSE <<unpct(s[2], s[3])>> \o rest
    ELSE LET rest == decodeURIComponent(Tail(s))
         IN IF rest = URIError THEN URIError ELSE <<Head(s)>> \o rest

\* cookie.parse's tryDecode: the value itself when it does not decode
tryDecode(s) == IF decodeURIComponent(s) = URIError THEN s ELSE decodeURIComponent(s)

indexOf(s, c) == IF \E i \in 1..Len(s) : s[i] = c
                   THEN CHOOSE i \in 1..Len(s) : s[i] = c /\ \A j \in 1..(i - 1) : s[j] # c
                   ELSE 0
lastIndexOf(s, c) == IF \E i \in 1..Len(s) : s[i] = c
                       THEN CHOOSE i \in 1..Len(s) : s[i] = c /\ \A j \in (i + 1)..Len(s) : s[j] # c
                       ELSE 0

\* the key=value pairs of a cookie header, in order, keys and values trimmed
cookiePairs(header) ==
  LET parts == SelectSeq(split(header, ";"), LAMBDA c : indexOf(c, "=") > 0)
  IN [i \in 1..Len(parts) |->
        [key |-> trim(SubSeq(parts[i], 1, indexOf(parts[i], "=") - 1)),
         val |-> trim(SubSeq(parts[i], indexOf(parts[i], "=") + 1, Len(parts[i])))]]

\* cookie.parse(header)[name]: the first pair of that key, decoded
cookieParse(header, name) ==
  IF Falsy(header) THEN Undefined
  ELSE LET pairs == cookiePairs(header)
           hits == {i \in 1..Len(pairs) : pairs[i].key = name}
       IN IF hits = {} THEN Undefined
          ELSE tryDecode(pairs[CHOOSE i \in hits : \A j \in hits : i <= j].val)

\* cookieSignature.unsign(input, secret)
unsign(input, secret) ==
  LET dot == lastIndexOf(input, ".")
      tentative == IF dot = 0 THEN SubSeq(input, 1, Len(input) - 1) ELSE SubSeq(input, 1, dot - 1)
  IN IF sign(tentative, secret) = input THEN tentative ELSE False

\* the session id the engine resolves from the cookie `name` of the header
engineSessionId(header, name, secret) ==
  LET raw == cookieParse(header, name)
  IN IF raw = Undefined \/ ~startsWith(raw, <<"s", ":">>) THEN False
     ELSE unsign(SubSeq(raw, 3, Len(raw)), secret)

(***************************************************************************)
(* Properties                                                              *)
(***************************************************************************)
Count(seq, x) == Cardinality({i \in 1..Len(seq) : seq[i] = x})
Has(seq, x) == \E i \in 1..Len(seq) : seq[i] = x

Missing(v) == v = Undefined \/ v = <<>>
WellFormedId(d) == d # Undefined /\ Len(d) \in {17, 18, 19} /\ \A i \in 1..Len(d) : d[i] \in Digits

\* C1: a request whose team_member_id is missing, whose discord_id is missing
\* or whose discord_id is not 17-19 digits never has registerUser called.
C1_NoCommitWithoutInviteAndId ==
  \A r \in Reqs :
    (Missing(req[r].body.team_member_id) \/ Missing(req[r].body.discord_id)
       \/ ~WellFormedId(req[r].body.discord_id))
    => ~Has(req[r].trace, "registerUser")

\* a request with a team name and a well-formed id but no invite was handled
C1_Witness ==
  \E r \in Reqs :
    /\ req[r].pc = "returned"
    /\ ~Missing(req[r].body.team_name)
    /\ Missing(req[r].body.team_member_id)
    /\ WellFormedId(req[r].body.discord_id)
    /\ ~Has(req[r].trace, "registerUser")

\* C2: when the gateway is not Ready at the query, or a fetch fails, or the
\* user is not a member, or DISCORD_GUILD_ID is not set, the signup is
\* rejected (done once, with no user) and registerUser is never called.
C2_GatewayFailureRejects ==
  /\ \A r \in Reqs :
       req[r].gate6 \in {"noconfig", "notready", "guildfail", "notmember"}
       => /\ req[r].pc = "returned"
          /\ Len(req[r].done) = 1
          /\ req[r].done[1].user = NoUser
          /\ req[r].done[1].key = "error"
          /\ ~Has(req[r].trace, "registerUser")
  /\ \A r \in Reqs :
       (req[r].pc = "await_isUserInGuild" /\ (req[r].gw.cl = 0 \/ ~req[r].gw.init))
       => ~Has(req[r].trace, "registerUser")
  /\ ~guildIdCfg => \A r \in Reqs : ~Has(req[r].trace, "registerUser")

\* a signup was rejected because the gateway was not Ready when asked
C2_Witness ==
  \E r \in Reqs : req[r].gate6 = "notready" /\ req[r].pc = "returned" /\ Len(req[r].done) = 1


\* ---- the gates of the spec, decided from the request and its environment ----
\* rows of the users table other than the one this request created
others(r) == {u \in users : u.id # req[r].row}

EmailBound(rows, email, google, deleted) ==
  \E u \in rows : /\ toLowerCase(u.email) = toLowerCase(trim(email))
                  /\ (google => u.google_id) /\ (deleted => u.is_deleted)

GateFailures == {"noconfig", "notready", "guildfail", "notmember"}

FailsGate(r, k) ==
  LET b == req[r].body IN
  CASE k = 1 -> Missing(b.team_name)
    [] k = 2 -> Missing(b.team_member_id)
    [] k = 3 -> Missing(b.discord_id)
    [] k = 4 -> ~WellFormedId(b.discord_id)
    [] k = 5 -> \E u \in others(r) : u.discord_id # Undefined /\ u.discord_id = b.discord_id
    [] k = 6 -> req[r].gate6 \in GateFailures
    [] k = 7 -> EmailBound(others(r), b.email, TRUE, FALSE)
    [] k = 8 -> EmailBound(others(r), b.email, FALSE, TRUE)

\* the lowest-numbered failing gate, 0 when no gate fails
LowestFailing(r) ==
  IF \E k \in 1..8 : FailsGate(r, k)
    THEN CHOOSE k \in 1..8 : FailsGate(r, k) /\ \A j \in 1..(k - 1) : ~FailsGate(r, j)
    ELSE 0

GateReason(r, k) ==
  CASE k = 1 -> TeamNameRequired
    [] k = 2 -> InviteOnly
    [] k = 3 -> DiscordIdRequired
    [] k = 4 -> DiscordIdInvalid
    [] k = 5 -> DiscordIdRegistered
    [] k = 6 -> IF req[r].gate6 = "noconfig" THEN DefaultError ELSE NotInGuild
    [] k = 7 -> GoogleLinked(req[r].body.email)
    [] k = 8 -> Deactivated(req[r].body.email)

\* C3: a request that fails a gate is rejected with the reason of the
\* lowest-numbered gate it fails (invite-only before Discord-required), and
\* no request that fails a gate gets as far as the commit call.
C3_LowestFailingGateReason ==
  \A r \in Reqs :
    /\ (req[r].pc = "returned" /\ ~Has(req[r].trace, "registerUser"))
         => /\ LowestFailing(r) # 0
            /\ req[r].done = <<DoneCall(NoUser, "error", GateReason(r, LowestFailing(r)))>>
    /\ req[r].pc = "await_registerUser"
         => /\ LowestFailing(r) = 0
            /\ req[r].gate6 = "member"

\* a request missing both team_member_id and discord_id got the invite-only reason
C3_Witness ==
  \E r \in Reqs :
    /\ req[r].pc = "returned"
    /\ ~Missing(req[r].body.team_name)
    /\ Missing(req[r].body.team_member_id)
    /\ Missing(req[r].body.discord_id)
    /\ req[r].done = <<DoneCall(NoUser, "error", InviteOnly)>>

\* the external calls of the gates up to gate k, in order
ExpectedCalls(r, k) ==
  CASE k \in 1..4 -> <<>>
    [] k = 5 -> <<"isDiscordIdTaken">>
    [] k = 6 -> IF req[r].gate6 = "noconfig" THEN <<"isDiscordIdTaken">>
                ELSE <<"isDiscordIdTaken", "isUserInGuild">>
    [] k = 7 -> <<"isDiscordIdTaken", "isUserInGuild", "isGoogleAccountFound">>
    [] k = 8 -> <<"isDiscordIdTaken", "isUserInGuild", "isGoogleAccountFound", "isAccountDeactivated">>

\* the calls handleSignUp itself makes (guilds.fetch is made by the gateway)
OwnCalls(trace) == SelectSeq(trace, LAMBDA x : x # "guilds.fetch")

\* C4: nothing is called after the failing gate: done is the last event of a
\* request, the calls before it are those of the gates up to the failing one,
\* and an ill-formed discord_id never reaches the gateway.
C4_NoCallAfterFailingGate ==
  \A r \in Reqs :
    /\ Has(req[r].trace, "done")
         => Count(req[r].trace, "done") = 1 /\ req[r].trace[Len(req[r].trace)] = "done"
    /\ ~WellFormedId(req[r].body.discord_id)
         => ~Has(req[r].trace, "isUserInGuild") /\ ~Has(req[r].trace, "guilds.fetch")
    /\ (req[r].pc = "returned" /\ ~Has(req[r].trace, "registerUser") /\ LowestFailing(r) # 0)
         => OwnCalls(req[r].trace) = ExpectedCalls(r, LowestFailing(r)) \o <<"done">>

\* a request with the 5-digit id "12345" was rejected without any call
C4_Witness ==
  \E r \in Reqs :
    /\ req[r].pc = "returned"
    /\ ~Missing(req[r].body.team_name)
    /\ ~Missing(req[r].body.team_member_id)
    /\ req[r].body.discord_id = DigitString(5)
    /\ req[r].trace = <<"done">>
    /\ req[r].done = <<DoneCall(NoUser, "error", DiscordIdInvalid)>>

\* the end-to-end scenario: team name, invite reference, well-formed id, a
\* Ready gateway that reported membership, no conflicting account
GoodScenario(r) ==
  /\ ~Missing(req[r].body.team_name)
  /\ ~Missing(req[r].body.team_member_id)
  /\ WellFormedId(req[r].body.discord_id)
  /\ req[r].gw.cl # 0 /\ req[r].gw.init
  /\ req[r].gate6 = "member"
  /\ \A k \in {5, 7, 8} : ~FailsGate(r, k)

IndexOf(seq, x) == CHOOSE i \in 1..Len(seq) : seq[i] = x

CommitThenOneEmail(trace) ==
  /\ Count(trace, "registerUser") = 1
  /\ Count(trace, "registerUser:returned") = 1
  /\ Count(trace, "sendWelcomeEmail") = 1
  /\ IndexOf(trace, "registerUser") < IndexOf(trace, "registerUser:returned")
  /\ IndexOf(trace, "registerUser:returned") < IndexOf(trace, "sendWelcomeEmail")

\* C5 as claimed: every request of the end-to-end scenario, once handled,
\* has called registerUser exactly once and then attempted exactly one
\* welcome email.
C5_Original ==
  \A r \in Reqs :
    (req[r].pc = "returned" /\ GoodScenario(r)) => CommitThenOneEmail(req[r].trace)

\* C5, amended: in the end-to-end scenario, when the database lookups succeed
\* and the commit call returns the user, registerUser has been called exactly
\* once and exactly one welcome email attempted, after the commit returned;
\* no request calls registerUser or attempts the email more than once, and
\* the email is attempted only after a commit that returned.
C5_CommitOnceThenOneEmail ==
  \A r \in Reqs :
    /\ Count(req[r].trace, "registerUser") <= 1
    /\ Count(req[r].trace, "sendWelcomeEmail") <= 1
    /\ Has(req[r].trace, "sendWelcomeEmail") => CommitThenOneEmail(req[r].trace)
    /\ (req[r].pc = "returned" /\ GoodScenario(r) /\ ~Has(req[r].trace, "registerUser:threw"))
         => CommitThenOneEmail(req[r].trace)

\* the end-to-end scenario ran to a successful registration
C5_Witness ==
  \E r \in Reqs :
    /\ req[r].pc = "returned"
    /\ GoodScenario(r)
    /\ req[r].body.discord_id = DigitString(18)
    /\ CommitThenOneEmail(req[r].trace)
    /\ req[r].done[1].key = "success"


\* C6: with both headers and no cookie of that name received, the cookie
\* named by x-session-name that the bridge sets, once URL-decoded, stripped
\* of "s:" and verified with the same secret, is the raw x-session-id.
C6_SynthesizedCookieVerifies ==
  (/\ http.stage \in {"bridged", "next"}
   /\ ~Missing(http.sid) /\ ~Missing(http.sname)
   /\ cookieParse(http.received, http.sname) = Undefined)
  => /\ cookieParse(http.cookie, http.sname) # Undefined
     /\ startsWith(cookieParse(http.cookie, http.sname), <<"s", ":">>)
     /\ engineSessionId(http.cookie, http.sname, sessionSecret(http.envSecret)) = http.sid

\* the bridge ran on a request with both headers, other cookies and a
\* session id that needs URL-encoding
C6_Witness ==
  /\ http.stage = "bridged"
  /\ http.sid = <<";", "a">>
  /\ http.sname = <<"s", "i", "d">>
  /\ http.received = <<"a", "=", "1">>
  /\ engineSessionId(http.cookie, http.sname, sessionSecret(http.envSecret)) = http.sid

\* C7: with only one of the two headers, or neither, the cookie header is
\* left exactly as received.
C7_OneHeaderLeavesCookie ==
  (http.stage \in {"bridged", "next"} /\ (Missing(http.sid) \/ Missing(http.sname)))
  => http.cookie = http.received

\* the bridge ran on a request with x-session-id only and a cookie header
C7_Witness ==
  /\ http.stage = "bridged"
  /\ ~Missing(http.sid)
  /\ http.sname = Undefined
  /\ http.received = <<"s", "i", "d", "=", "o">>
  /\ http.cookie = http.received

\* C8: isUserInGuild never throws; it returns false when there is no client,
\* when the gateway is not Ready, when fetching the guild fails and when
\* fetching the member fails; it returns true only when the gateway is Ready
\* and both fetches succeed.
C8_IsUserInGuildNeverThrows ==
  ret.op = "isUserInGuild"
  => /\ ret.result \in {"true", "false"}
     /\ (~ret.hadClient \/ ~ret.wasReady \/ ~ret.guildFetched \/ ~ret.memberFetched)
          => ret.result = "false"
     /\ ret.result = "true"
          => (ret.hadClient /\ ret.wasReady /\ ret.guildFetched /\ ret.memberFetched)
     /\ ret.fetched <=> (ret.hadClient /\ ret.wasReady)

\* a query on a Ready gateway whose guild fetch failed returned false
C8_Witness ==
  /\ ret.op = "isUserInGuild"
  /\ ret.hadClient /\ ret.wasReady
  /\ ~ret.guildFetched
  /\ ret.result = "false"

BackoffTable == <<2000, 4000, 8000, 16000, 30000>>

\* C9: the transport errors since the last ready acknowledgment scheduled
\* reconnects 1..5 with delays 2000, 4000, 8000, 16000, 30000, and an error
\* after the fifth scheduled nothing.
C9_BackoffSequence ==
  /\ Len(backoff) <= 5
  /\ backoff = SubSeq(BackoffTable, 1, Len(backoff))
  /\ reconnectAttempts = Len(backoff)
  /\ dropped > 0 => Len(backoff) = 5
  /\ ret.op = "handleReconnect"
       => IF ret.delay = 0 THEN Len(backoff) = 5 /\ dropped > 0
          ELSE ret.attempt = Len(backoff) /\ ret.delay = BackoffTable[ret.attempt]

\* six transport errors in a row: five reconnects scheduled, the sixth dropped
C9_Witness ==
  /\ backoff = BackoffTable
  /\ dropped = 1
  /\ ret.op = "handleReconnect" /\ ret.delay = 0

\* C10: isValidDiscordIdFormat accepts exactly the strings of 17, 18 or 19
\* decimal digits.
C10_FormatAcceptsExactly17To19Digits ==
  fmt.result # "untested"
  => (fmt.result = "true"
        <=> (Len(fmt.arg) \in {17, 18, 19} /\ \A i \in 1..Len(fmt.arg) : fmt.arg[i] \in Digits))

\* a string of 20 digits was rejected
C10_Witness ==
  /\ fmt.result = "false"
  /\ Len(fmt.arg) = 20
  /\ \A i \in 1..Len(fmt.arg) : fmt.arg[i] \in Digits


(***************************************************************************)
(* Gateway state machine                                                   *)
(***************************************************************************)
\* The state names of the gateway, read off the service's fields: Ready is
\* what isInitialized() reports; a gateway that is not Ready is Connecting
\* while it holds a client that has not been destroyed.
gwState ==
  IF initialized THEN "Ready"
  ELSE IF client # 0 /\ ~conns[client].destroyed THEN "Connecting"
  ELSE "Uninitialized"

gwStateNext ==
  IF initialized' THEN "Ready"
  ELSE IF client' # 0 /\ ~conns'[client'].destroyed THEN "Connecting"
  ELSE "Uninitialized"

\* the step is a transport error handled by handleReconnect
isErrorStep == timers' = timers + 1 \/ dropped' = dropped + 1

GatewayEdges ==
  { <<"Uninitialized", "Connecting">>, <<"Connecting", "Ready">>, <<"Ready", "Connecting">>,
    <<"Connecting", "Uninitialized">>, <<"Ready", "Uninitialized">> }

\* C11: the gateway's state changes only along Uninitialized -> Connecting
\* (initialize), Connecting -> Ready (ready acknowledgment), Ready ->
\* Connecting (transport error) and any -> Uninitialized (shutdown); a
\* transport error received while Ready takes the gateway out of Ready.
C11_StateMachineEdges ==
  [][ /\ gwStateNext # gwState => <<gwState, gwStateNext>> \in GatewayEdges
      /\ (gwStateNext = "Uninitialized" /\ gwState # "Uninitialized") => ret'.op = "shutdown"
      /\ (gwStateNext = "Ready" /\ gwState # "Ready") => ret'.op = "ready"
      /\ (gwState = "Ready" /\ isErrorStep) => gwStateNext # "Ready" ]_vars

\* C12 (as claimed): after a transport error at the reconnect ceiling, the
\* gateway never becomes Ready again and no reconnect is scheduled again.
C12_Original ==
  [][ (dropped > 0 /\ ~initialized) => (~initialized' /\ timers' <= timers) ]_vars

\* C12: while the reconnect attempt count is at the ceiling, no transport
\* error schedules a reconnect, and the count leaves the ceiling only when a
\* ready acknowledgment resets it to 0, which is also the only way the
\* gateway becomes Ready again.
C12_CeilingHoldsUntilReady ==
  [][ reconnectAttempts >= MAX_RECONNECT_ATTEMPTS
      => /\ timers' <= timers
         /\ reconnectAttempts' # reconnectAttempts
              => (reconnectAttempts' = 0 /\ ret'.op = "ready" /\ initialized')
         /\ (initialized' /\ ~initialized) => (ret'.op = "ready" /\ reconnectAttempts' = 0) ]_vars

\* a transport error arrived at the ceiling and scheduled nothing
C12_Witness ==
  /\ reconnectAttempts = MAX_RECONNECT_ATTEMPTS
  /\ dropped = 1
  /\ ret.op = "handleReconnect" /\ ret.delay = 0
  /\ ~initialized


\* the step is a call of initialize() by the application (the reconnect
\* callback, which also runs initialize, consumes a timer)
isInitializeCall == ret'.op = "initialize" /\ timers' = timers

\* C13: initialize() called while the gateway is Ready creates no client,
\* opens no connection, registers no handler and leaves initialized,
\* reconnectAttempts and the client reference unchanged.
C13_InitializeWhileReadyIsNoOp ==
  [][ (initialized /\ isInitializeCall)
      => /\ UNCHANGED <<client, conns, initialized, reconnectAttempts, timers>>
         /\ ret'.outcome = "skipped" ]_vars

\* initialize() was called on a Ready gateway
C13_Witness ==
  /\ initialized
  /\ ret = [op |-> "initialize", outcome |-> "skipped"]
  /\ Len(conns) = 1 /\ client = 1

\* C14: shutdown() destroys the client and leaves isInitialized() false; a
\* second shutdown() changes nothing more; shutdown() on a gateway that was
\* never initialized changes nothing.
C14_ShutdownIdempotent ==
  LET once == shutdownEffect(client, conns, initialized)
      twice == shutdownEffect(client, once.conns, once.initialized)
  IN /\ ~once.initialized
     /\ client # 0 => once.conns[client].destroyed
     /\ twice = once
     /\ client = 0 => once = [conns |-> conns, initialized |-> initialized]
     /\ ret.op = "shutdown" => (~initialized /\ (client # 0 => conns[client].destroyed))

\* shutdown() was called on a Ready gateway
C14_Witness ==
  /\ ret.op = "shutdown"
  /\ client # 0 /\ conns[client].ready /\ conns[client].destroyed
  /\ ~initialized

\* C15: whatever the headers, and whether or not signing threw, the bridge
\* calls the session engine exactly once and then calls next exactly once,
\* with the error the engine reported or with none when it reported none.
C15_EngineOnceErrorForwarded ==
  /\ http.stage = "received" => (http.engineCalls = 0 /\ http.next = <<>>)
  /\ http.stage = "bridged" => (http.engineCalls = 1 /\ http.next = <<>>)
  /\ http.stage = "next" => (http.engineCalls = 1 /\ http.next = <<http.engineErr>>)

\* a request with both headers whose signing threw, and an engine error
C15_Witness ==
  /\ http.stage = "next"
  /\ ~Missing(http.sid) /\ ~Missing(http.sname) /\ http.signThrows
  /\ http.engineErr = "store failure"
  /\ http.next = <<"store failure">>


\* C16: with both headers and an existing cookie header, the cookie header
\* after the bridge holds exactly one cookie whose key is the x-session-name
\* value, the synthesized one, and every cookie of another key is still
\* there with its value.
C16_OtherCookiesKept ==
  (/\ http.stage \in {"bridged", "next"}
   /\ ~Missing(http.sid) /\ ~Missing(http.sname) /\ ~Missing(http.received))
  => LET before == cookiePairs(http.received)
         after == cookiePairs(http.cookie)
         synthesized == encodeURIComponent(<<"s", ":">> \o sign(http.sid, sessionSecret(http.envSecret)))
     IN /\ Cardinality({i \in 1..Len(after) : after[i].key = http.sname}) = 1
        /\ \A i \in 1..Len(after) : after[i].key = http.sname => after[i].val = synthesized
        /\ \A i \in 1..Len(before) :
             before[i].key # http.sname => \E j \in 1..Len(after) : after[j] = before[i]


InSeq(seq) == {seq[i] : i \in 1..Len(seq)}

\* C17: after the registry ran, the registered strategies are local-login
\* and local-signup always, google and google-mobile exactly when both
\* GOOGLE_CLIENT_ID and GOOGLE_CLIENT_SECRET are set, discord exactly when
\* both DISCORD_CLIENT_ID and DISCORD_CLIENT_SECRET are set; startup never
\* fails for a missing optional configuration.
C17_RegisteredStrategies ==
  registry.stage = "registered"
  => LET names == InSeq(registry.strategies)
         env == registry.env
         google == ~Missing(env.GOOGLE_CLIENT_ID) /\ ~Missing(env.GOOGLE_CLIENT_SECRET)
         discord == ~Missing(env.DISCORD_CLIENT_ID) /\ ~Missing(env.DISCORD_CLIENT_SECRET)
     IN /\ registry.outcome = "returned"
        /\ names \subseteq {"local-login", "local-signup", "google", "google-mobile", "discord"}
        /\ Len(registry.strategies) = Cardinality(names)
        /\ {"local-login", "local-signup"} \subseteq names
        /\ "google" \in names <=> google
        /\ "google-mobile" \in names <=> google
        /\ "discord" \in names <=> discord

\* startup with the Google id but not its secret, and Discord fully set
C17_Witness ==
  /\ registry.stage = "registered"
  /\ registry.env.GOOGLE_CLIENT_ID = <<"x">> /\ registry.env.GOOGLE_CLIENT_SECRET = Undefined
  /\ registry.env.DISCORD_CLIENT_ID = <<"x">> /\ registry.env.DISCORD_CLIENT_SECRET = <<"x">>
  /\ registry.strategies = <<"local-login", "local-signup", "discord">>


\* C18: once registerUser has committed the account, the account stays in
\* the users table and done reports the created user, whether the welcome
\* email is delivered or not.
C18_EmailFailureKeepsAccount ==
  \A r \in Reqs :
    (req[r].pc = "returned" /\ Has(req[r].trace, "registerUser:returned"))
    => /\ \E u \in users : u.id = req[r].row /\ u.discord_id = req[r].body.discord_id
       /\ req[r].mail \in {"delivered", "failed"}
       /\ Len(req[r].done) = 1
       /\ req[r].done[1].key = "success"
       /\ req[r].done[1].user # NoUser
       /\ req[r].done[1].user.discord_id = req[r].body.discord_id

\* an account was committed and its welcome email was not delivered
C18_Witness ==
  \E r \in Reqs :
    /\ req[r].pc = "returned" /\ Has(req[r].trace, "registerUser:returned")
    /\ req[r].mail = "failed"
    /\ req[r].done[1].key = "success"
    /\ \E u \in users : u.id = req[r].row

\* the reason the claim lists for a failure signal of the commit call
CommitFailureText(e) ==
  IF e.message = <<"ERROR_INVALID_JOINING_EMAIL">> THEN "No invitations found for email {}."
  ELSE IF Has(e.message, "EMAIL_EXISTS_ERROR") \/ e.constraint = "users_google_id_uindex"
    THEN "Worklenz account already exists for email {}."
  ELSE IF Has(e.message, "TEAM_NAME_EXISTS_ERROR")
    THEN "Team name \"{}\" already exists. Please choose a different team name."
  ELSE IF e.constraint \in {"teams_url_uindex", "teams_name_uindex"}
    THEN "Team name \"{}\" is already taken. Please choose a different team name."
  ELSE "DEFAULT_ERROR_MESSAGE"

\* C19: when registerUser fails, done is called once, with no user and the
\* one reason that belongs to the failure signal (no invitations, duplicate
\* email, duplicate team name, team name taken, or the default message), and
\* no welcome email is dispatched.
C19_CommitFailureReason ==
  \A r \in Reqs :
    (req[r].pc = "returned" /\ Has(req[r].trace, "registerUser:threw"))
    => /\ Len(req[r].done) = 1
       /\ req[r].done[1].user = NoUser
       /\ req[r].done[1].key = "error"
       /\ req[r].done[1].reason.text = CommitFailureText(req[r].error)
       /\ ~Has(req[r].trace, "sendWelcomeEmail")
       /\ req[r].mail = "none"
       /\ \A u \in users : u.id # req[r].row

\* the commit failed on the unique index of google_id
C19_Witness ==
  \E r \in Reqs :
    /\ req[r].pc = "returned" /\ Has(req[r].trace, "registerUser:threw")
    /\ req[r].error.constraint = "users_google_id_uindex"
    /\ req[r].done[1].reason.text = "Worklenz account already exists for email {}."


\* the step is a call of isUserInGuild: it returns at once, or waits for guilds.fetch
isUserInGuildCalled == query.pc = "idle" /\ ret'.op \in {"isUserInGuild", "isUserInGuild:called"}

\* C20: from a transport error that triggers a reconnect until the next
\* ready acknowledgment, every isUserInGuild call made sees the gateway not
\* ready and returns false at once, without a fetch on the connection.
C20_QueriesDuringReconnectSeeNotReady ==
  [][ (isUserInGuildCalled /\ Len(backoff) > 0)
      => (ret'.op = "isUserInGuild" /\ ~ret'.wasReady /\ ~ret'.fetched /\ ret'.result = "false")
    ]_vars


\* the connections that were created and have not been destroyed
OpenConns == {k \in 1..Len(conns) : ~conns[k].destroyed}

\* C21: in every reachable state the gateway owns at most one open (created
\* and not destroyed) connection.
C21_AtMostOneOpenConnection == Cardinality(OpenConns) <= 1


\* the addresses of a "to" string handed to the transport
Recipients(handed) ==
  LET parts == split(handed, ",")
  IN [i \in 1..Len(parts) |-> trimStart(parts[i])]

\* C22: the recipient list sendEmail hands to the mail transport holds no
\* address twice.
C22_NoDuplicateRecipient ==
  mailer.handed # NotCalled
  => \A i, j \in 1..Len(Recipients(mailer.handed)) :
       i # j => Recipients(mailer.handed)[i] # Recipients(mailer.handed)[j]

\* the addresses of the input that are non-empty and valid once trimmed and are
\* on neither list
Deliverable ==
  IF ~mailer.input.isArray THEN {}
  ELSE {trim(mailer.input.items[i]) : i \in
          {j \in 1..Len(mailer.input.items) :
             LET e == mailer.input.items[j] IN
               /\ e # Undefined /\ trim(e) # <<>> /\ isValidateEmail(trim(e))
               /\ trim(e) \notin mailer.bounced \cup mailer.spam}}

\* C27: every address handed to the transport is non-empty, valid and on
\* neither the bounced nor the spam list; when no recipient remains the
\* transport is not called and null is returned; the call never throws, and a
\* failure of a query or of the transport yields null.
C27_OnlyFilteredRecipients ==
  /\ mailer.handed # NotCalled
     => \A i \in 1..Len(Recipients(mailer.handed)) :
          LET a == Recipients(mailer.handed)[i] IN
            /\ a # <<>> /\ isValidateEmail(a)
            /\ a \notin mailer.bounced /\ a \notin mailer.spam
            /\ a \in Deliverable
  /\ Deliverable = {}
     => mailer.sendMailCalls = 0 /\ (mailer.stage = "returned" => mailer.result = Null)
  /\ mailer.stage = "returned" => mailer.result \in {Null, MessageId}
  /\ mailer.failed => mailer.result = Null

C27_Witness ==
  /\ mailer.stage = "returned" /\ mailer.result = MessageId
  /\ mailer.bounced # {} /\ mailer.spam # {}
  /\ mailer.input.isArray
  /\ \E i, j \in 1..Len(mailer.input.items) :
       mailer.input.items[i] \in mailer.bounced /\ mailer.input.items[j] = <<>>

\* the discord_id row u held after the first k UPDATE statements
RECURSIVE DiscordIdAfter(_, _)
DiscordIdAfter(u, k) ==
  IF k = 0
    THEN (IF \E j \in 1..Len(db.calls) : db.calls[j].row = u
            THEN db.calls[CHOOSE j \in 1..Len(db.calls) :
                            /\ db.calls[j].row = u
                            /\ \A i \in 1..(j - 1) : db.calls[i].row # u].old
            ELSE db.users[u].discord_id)
  ELSE IF db.calls[k].row = u /\ ~db.calls[k].raised THEN db.calls[k].new
  ELSE DiscordIdAfter(u, k - 1)

\* C23: once a row has held a non-NULL discord_id, it never holds a different
\* non-NULL discord_id after any later UPDATE.
C23_DiscordIdImmutable ==
  \A u \in 1..Len(db.users) : \A k \in 0..Len(db.calls) :
    LET before == DiscordIdAfter(u, k)
        now == db.users[u].discord_id
    IN before # SqlNull /\ now # SqlNull => now = before

\* C24: two deserialize_user calls in a row for the same user id both return
\* an identity view, the same one, and the second leaves notification_settings
\* as the first left it, with at most one row per (user_id, team_id).
C24_DeserializeIdempotent ==
  \A k \in 1..(Len(db.calls) - 1) :
    db.calls[k].id = db.calls[k + 1].id
    => /\ ~db.calls[k].result.raised /\ ~db.calls[k + 1].result.raised
       /\ db.calls[k].result.row = db.calls[k + 1].result.row
       /\ db.calls[k].settings = db.calls[k + 1].settings

\* the user owns no team and has no active team
Teamless(id) ==
  userById(db, id).active_team = SqlNull /\ \A t \in db.teams : t.user_id # id

\* C28: deserialize_user inserts no notification_settings row with a NULL
\* team_id: for a user with no active team and no owned team nothing is
\* inserted, otherwise at most the one row (user, COALESCE(active_team, an
\* owned team)); this holds of the function and of its INSERT statement.
C28_NoNullTeamIdInsert ==
  \A id \in UserIds(db) : \A limit1 \in ownedTeamLimit1(db, id) :
    LET rows == settingsRowsToInsert(db, id, limit1)
        after == deserialize_user(db, id, limit1).db.notification_settings
        inserted == after \ db.notification_settings
    IN /\ \A r \in rows : r.team_id # SqlNull
       /\ Teamless(id) => rows = {}
       /\ ~Teamless(id)
          => rows = {[user_id |-> id,
                      team_id |-> coalesce(userById(db, id).active_team, limit1)]}
       /\ inserted \subseteq rows
       /\ \A r \in after : r.team_id # SqlNull

C28_Witness ==
  \E j, k \in 1..Len(db.calls) :
    /\ Teamless(db.calls[j].id)
    /\ ~Teamless(db.calls[k].id)
    /\ \A r \in db.notification_settings : r.user_id # db.calls[k].id

\* the call a step appended to the log
lastCall == db'.calls[Len(db'.calls)]

\* the step is a register_discord_user call that created a user from a body
\* with a non-empty teamMember and returned
InvitedUserCreated ==
  /\ Len(db'.calls) = Len(db.calls) + 1
  /\ lastCall.op = "register_discord_user"
  /\ lastCall.created /\ ~lastCall.result.raised
  /\ lastCall.body.teamMember # SqlNull /\ lastCall.body.teamMember # <<>>

\* after the step the team_members row is bound to the new user and the user's
\* active_team is that row's team
InvitationBound ==
  \E m \in db'.team_members :
    /\ m.id = lastCall.body.teamMember
    /\ m.user_id = lastCall.userId
    /\ m.team_id # SqlNull
    /\ userById(db', lastCall.userId).active_team = m.team_id

\* C29 as stated: whenever a user is created from a body with a non-empty
\* teamMember, the invitation row is bound to the user and active_team is set.
C29_Original == [][InvitedUserCreated => InvitationBound]_vars

\* C29: whenever a user is created from a body whose non-empty teamMember
\* identifies an existing team_members row, after the call that row is bound to
\* the new user and the user's active_team is that row's team (non-NULL).
C29_InvitationBound ==
  [][InvitedUserCreated /\ (\E m \in db.team_members : m.id = lastCall.body.teamMember)
     => InvitationBound]_vars

C29_Witness ==
  /\ Len(db.calls) = 1
  /\ db.calls[1].op = "register_discord_user"
  /\ db.calls[1].created /\ db.calls[1].body.teamMember = <<"m1">>
  /\ userById(db, db.calls[1].userId).active_team = <<"t1">>

\* the configuration the endpoint needs is absent
ConfigAbsent ==
  IF route.endpoint = "/google"
    THEN Missing(route.env.GOOGLE_CLIENT_ID) \/ Missing(route.env.GOOGLE_CLIENT_SECRET)
  ELSE IF route.endpoint = "/discord"
    THEN Missing(route.env.DISCORD_CLIENT_ID) \/ Missing(route.env.DISCORD_CLIENT_SECRET)
  ELSE Missing(route.env.LOGIN_SUCCESS_REDIRECT) \/ Missing(route.env.LOGIN_FAILURE_REDIRECT)

\* C30: a request to an OAuth endpoint whose required configuration is absent
\* is answered with status 500 and passport.authenticate is not called.
C30_NoDelegationWithoutConfig ==
  route.stage = "responded" /\ ConfigAbsent
  => route.response.status = 500 /\ route.response.calls = <<>>

C30_Witness ==
  /\ route.stage = "responded" /\ route.endpoint = "/discord/verify"
  /\ route.env.LOGIN_SUCCESS_REDIRECT = <<"x">> /\ route.env.LOGIN_FAILURE_REDIRECT = Undefined
  /\ route.env.DISCORD_CLIENT_ID = <<"x">> /\ route.env.DISCORD_CLIENT_SECRET = <<"x">>
  /\ route.sessionError # Undefined
  /\ route.response.status = 500

\* the outcomes with which an initialize() call throws
Throws == {"throw_token", "throw_init_failed", "throw_timeout"}

\* the outcome a step reports for an initialize() call: at the call itself,
\* when its login settles and when its 30000 ms timer fires
initializeOutcome(r) ==
  IF r.op \in {"initialize", "login", "timeout"} THEN r.outcome ELSE "none"

\* C25: each failure case of initialize() throws and does not mark the gateway
\* Ready: without a bot token it throws before a client is created; when login
\* is rejected it throws the initialization failure; when the 30000 ms timer
\* has won the race and login has succeeded it throws the timeout failure; and
\* a throwing step leaves the initialized flag as it was, which is false unless
\* some connection has acknowledged ready.
C25_InitializeFailureCases ==
  [][ /\ (ret'.op = "initialize" /\ ~initialized /\ ~botToken)
         => initializeOutcome(ret') = "throw_token"
      /\ initializeOutcome(ret') = "throw_token" => conns' = conns /\ client' = client
      /\ \A k \in 1..Len(conns) :
           /\ (conns[k].login = "pending" /\ conns'[k].login = "rejected")
              => initializeOutcome(ret') = "throw_init_failed"
           /\ ( /\ conns'[k].login = "ok" /\ conns'[k].race = "timeout"
                /\ (conns[k].login # "ok" \/ conns[k].race # "timeout") )
              => initializeOutcome(ret') = "throw_timeout"
      /\ initializeOutcome(ret') \in Throws
         => /\ initialized' = initialized
            /\ (\A k \in 1..Len(conns') : ~conns'[k].ready) => ~initialized'
    ]_vars

C25_Witness ==
  /\ initializeOutcome(ret) = "throw_timeout"
  /\ Len(conns) = 1 /\ conns[1].login = "ok" /\ ~conns[1].ready
  /\ ~initialized

\* C26: when both headers are present and signing throws, the cookie header
\* the engine is given is the unsigned cookie <x-session-name>=s%3A<x-session-id>,
\* and the engine is called once, as for any other request.
C26_SignFailureFallsBack ==
  (http.stage \in {"bridged", "next"} /\ http.signThrows
     /\ ~Missing(http.sid) /\ ~Missing(http.sname))
  => /\ http.cookie = concat(<<http.sname, <<"=", "s", "%", "3", "A">>, http.sid>>)
     /\ http.engineCalls = 1
     /\ http.stage = "next" => Len(http.next) = 1

C26_Witness ==
  /\ http.stage = "next" /\ http.signThrows
  /\ ~Missing(http.sid) /\ ~Missing(http.sname)
  /\ http.received # Undefined
  /\ http.engineErr = NoError /\ http.next = <<NoError>>

\* handleSignUp has run to its end for request r: it returned, or the promise
\* it returned was rejected
Settled(r) == req[r].pc \in {"returned", "rejected"}

\* C31: a signup request that has run to its end has called done exactly
\* once, and a request still waiting has not called it yet.
C31_DoneCalledExactlyOnce ==
  \A r \in Reqs :
    /\ Settled(r) => Len(req[r].done) = 1
    /\ Len(req[r].done) <= 1

\* C32: two requests in flight with the same discord_id are never both past
\* gate 5 and at the commit call registerUser.
C32_OneRequestPerDiscordIdCommits ==
  \A r1 \in Reqs : \A r2 \in Reqs \ {r1} :
    (req[r1].pc = "await_registerUser" /\ req[r2].pc = "await_registerUser")
    => req[r1].body.discord_id # req[r2].body.discord_id

\* C33: the step that follows shutdown(), unless it is an initialize() call
\* made by the application, opens no connection and leaves the gateway not
\* Ready.
C33_ShutdownIsFinal ==
  [][ (ret.op = "shutdown" /\ ~isInitializeCall)
      => (Len(conns') = Len(conns) /\ ~initialized') ]_vars

\* the initialize() call that opened connection c has thrown
Failed(c) == callOutcome(c) \in {"throw_init_failed", "throw_timeout"}

\* C34: the ready handler of a connection whose initialize() call has failed
\* does not mark the gateway Ready.
C34_LateReadyIgnored ==
  [][ \A k \in 1..Len(conns) :
        (Failed(conns[k]) /\ ~conns[k].ready /\ conns'[k].ready) => initialized' = initialized
    ]_vars

\* the attempt that made connection c failed to reach Ready: initialize()
\* threw, or the 30000 ms timer fired before the ready acknowledgment
FailedAttempt(c) == Failed(c) \/ (c.race = "timeout" /\ ~c.ready)

\* C35: once a reconnect attempt has failed to reach Ready while attempts are
\* left and the gateway is unavailable, a retry is still to come: the process
\* is running and a reconnect timer is pending or another initialize() call
\* is in progress.
C35_RetryPendingWhileAttemptsLeft ==
  \A k \in 1..Len(conns) :
    ( /\ conns[k].caller = "timer" /\ FailedAttempt(conns[k])
      /\ ~initialized /\ reconnectAttempts < MAX_RECONNECT_ATTEMPTS )
    => /\ process = "running"
       /\ \/ timers > 0
          \/ \E j \in 1..Len(conns) : ~conns[j].destroyed /\ callOutcome(conns[j]) = "pending"

\* the step handles a transport error / a ready acknowledgment
errorHandled == ret'.op = "handleReconnect" /\ (timers' = timers + 1 \/ dropped' = dropped + 1)
readyReceived == \E k \in 1..Len(conns) : ~conns[k].ready /\ conns'[k].ready

\* C36: reconnectAttempts stays within 0..MAX_RECONNECT_ATTEMPTS; a transport
\* error handled below the ceiling adds exactly one, one handled at the
\* ceiling changes nothing, a ready acknowledgment resets it to 0, and no
\* other step changes it.
C36_AttemptsBounded ==
  [][ /\ reconnectAttempts \in 0..MAX_RECONNECT_ATTEMPTS
      /\ reconnectAttempts' \in 0..MAX_RECONNECT_ATTEMPTS
      /\ errorHandled
         => reconnectAttempts' = IF reconnectAttempts < MAX_RECONNECT_ATTEMPTS
                                   THEN reconnectAttempts + 1 ELSE reconnectAttempts
      /\ readyReceived => reconnectAttempts' = 0
      /\ (~errorHandled /\ ~readyReceived) => reconnectAttempts' = reconnectAttempts
    ]_vars

C36_Witness ==
  /\ ret.op = "ready" /\ reconnectAttempts = 0
  /\ timers = MAX_RECONNECT_ATTEMPTS

\* C37: with both headers, signing throwing and a cookie header received,
\* every received cookie whose key is not the x-session-name value is still
\* in the cookie header after the bridge.
C37_FallbackKeepsOtherCookies ==
  (/\ http.stage \in {"bridged", "next"} /\ http.signThrows
   /\ ~Missing(http.sid) /\ ~Missing(http.sname) /\ ~Missing(http.received))
  => LET before == cookiePairs(http.received)
         after == cookiePairs(http.cookie)
     IN \A i \in 1..Len(before) :
          ~startsWith(before[i].key, http.sname)
          => \E j \in 1..Len(after) : after[j] = before[i]

\* C38: whenever the engine resolves a session id from the cookie header the
\* bridge hands it, it resolves the same id from the cookie header the client
\* sent, for every cookie name the engine may be configured with.
C38_EngineResolvesOnlyPresentedSignatures ==
  http.stage \in {"bridged", "next"}
  => \A n \in SessionNames \ {Undefined, <<>>} :
       LET secret == sessionSecret(http.envSecret)
           resolved == engineSessionId(http.cookie, n, secret)
       IN resolved # False => engineSessionId(http.received, n, secret) = resolved

====
